---- MODULE Spec2Model ----
(***************************************************************************)
(* Model of the interview session state machine (InterviewSession and      *)
(* MapAnswerProvider, interview-session.ts) and of the question generator  *)
(* (InterviewQuestionGenerator and selectFollowUps, question-generator.ts) *)
(* of pocket-stakeholder.                                                  *)
(*                                                                         *)
(* A JavaScript string is a sequence of one-character strings, so that     *)
(* toLowerCase and includes are computed character by character.           *)
(***************************************************************************)
EXTENDS Integers, Sequences, FiniteSets, TLC

\* ------------------------------------------------------------------ bounds
MaxCore == 2
MaxPool == 2
MaxCap == 2
MaxAnswerLen == 3
MaxSessions == 2
MaxEntries == 2
MaxDecisions == 2
MaxAmbiguities == 2
MaxCalls == 2
MaxStakeholders == 2
MaxSnapshotIds == 2
MaxRuns == 2
MaxSingles == 1

\* ------------------------------------------------------------------ strings
None == "<undefined>"

\* what an answer source yields besides a string; no string holds these characters
Null == <<"<null>">>
Thrown == <<"<throws>">>
NoAnswer == <<"<undefined>">>

Chars == {"l", "A", "x"}

\* the letters String.prototype.toLowerCase changes, and what it makes of them
UpperCaseLetters ==
    <<"A", "B", "C", "D", "E", "F", "G", "H", "I", "J", "K", "L", "M",
      "N", "O", "P", "Q", "R", "S", "T", "U", "V", "W", "X", "Y", "Z">>

LowerCaseLetters ==
    <<"a", "b", "c", "d", "e", "f", "g", "h", "i", "j", "k", "l", "m",
      "n", "o", "p", "q", "r", "s", "t", "u", "v", "w", "x", "y", "z">>

LowerChar(c) ==
    IF \E i \in 1..Len(UpperCaseLetters) : UpperCaseLetters[i] = c
    THEN LowerCaseLetters[CHOOSE i \in 1..Len(UpperCaseLetters) : UpperCaseLetters[i] = c]
    ELSE c

toLowerCase(s) == [i \in 1..Len(s) |-> LowerChar(s[i])]

\* String.prototype.includes: k occurs in s as a contiguous substring
includes(s, k) ==
    \E off \in 0..(Len(s) - Len(k)) : SubSeq(s, off + 1, off + Len(k)) = k

\* the keyword compared as written, not lowered
SomeKeywordAsWritten(keywords, lowerAnswer) ==
    \E i \in 1..Len(keywords) : includes(lowerAnswer, keywords[i])

\* Array.prototype.some over the keyword list of a trigger
SomeKeyword(keywords, lowerAnswer) ==
    \E i \in 1..Len(keywords) : includes(lowerAnswer, toLowerCase(keywords[i]))

\* ------------------------------------------------------------ question sets
CoreIdTable == <<"core-1", "core-2", "core-3", "core-4">>
FollowUpIdTable == <<"followup-1", "followup-2">>

TextOf(id) == <<"text of", id>>

NoTrigger == [has |-> FALSE, afterQuestionId |-> None, alwaysAsk |-> FALSE,
              hasKeywords |-> FALSE, triggerKeywords |-> <<>>]

AlwaysAsk(after) == [has |-> TRUE, afterQuestionId |-> after, alwaysAsk |-> TRUE,
                     hasKeywords |-> FALSE, triggerKeywords |-> <<>>]

Keywords(after, kws) == [has |-> TRUE, afterQuestionId |-> after, alwaysAsk |-> FALSE,
                         hasKeywords |-> TRUE, triggerKeywords |-> kws]

CoreQuestion(i) == [id |-> CoreIdTable[i], text |-> TextOf(CoreIdTable[i]),
                    type |-> "core", followUpTrigger |-> NoTrigger]

FollowUp(i, trigger) == [id |-> FollowUpIdTable[i], text |-> TextOf(FollowUpIdTable[i]),
                         type |-> "follow-up", followUpTrigger |-> trigger]

TriggerWords == << <<"x", "x">>, <<"L", "a">> >>

\* the follow-up questions the pool of a session is drawn from: conditioned on
\* a core question (always asked, or on a keyword), on another follow-up, and
\* a second entry with the id followup-1 that is conditioned on itself
PoolTable ==
    << FollowUp(1, AlwaysAsk("core-1")),
       FollowUp(2, Keywords("core-1", TriggerWords)),
       FollowUp(2, AlwaysAsk("followup-1")),
       FollowUp(1, AlwaysAsk("followup-1")) >>

FollowUpUniverse == { PoolTable[i] : i \in 1..Len(PoolTable) }

\* the entries of table at the positions in picked, in table order
Pick(table, picked) ==
    LET nth(j) == CHOOSE i \in picked : Cardinality({ h \in picked : h < i }) = j - 1
    IN [j \in 1..Cardinality(picked) |-> table[nth(j)]]

\* the follow-up questions handed to selectFollowUps alone
SelectUniverse ==
    FollowUpUniverse \cup
    { FollowUp(1, Keywords("core-1", TriggerWords)),
      FollowUp(2, AlwaysAsk("core-2")),
      FollowUp(1, Keywords("core-2", <<>>)),
      FollowUp(2, NoTrigger) }

SeqsUpTo(S, n) == UNION { [1..k -> S] : k \in 0..n }

\* the pools of a session: up to MaxPool entries of the table
Pools == { Pick(PoolTable, picked) :
             picked \in { P \in SUBSET (1..Len(PoolTable)) : Cardinality(P) <= MaxPool } }

CorePrefix(n) == [i \in 1..n |-> CoreQuestion(i)]

\* answers an answer source gives during a session
SessionAnswers == { <<>>, <<"x", "l", "A">> }

\* answers handed to selectFollowUps alone
AnswerStrings == SeqsUpTo(Chars, MaxAnswerLen)

QuestionIds == {"core-1", "core-2", "followup-1"}

\* ------------------------------------------------------- selectFollowUps
\* the filter predicate of selectFollowUps
Fires(followUp, lowerAnswer, questionId) ==
    IF ~followUp.followUpTrigger.has THEN FALSE
    ELSE IF followUp.followUpTrigger.afterQuestionId # questionId THEN FALSE
    ELSE IF followUp.followUpTrigger.alwaysAsk THEN TRUE
    ELSE IF followUp.followUpTrigger.hasKeywords
         THEN SomeKeyword(followUp.followUpTrigger.triggerKeywords, lowerAnswer)
    ELSE FALSE

RECURSIVE Filter(_, _, _)
Filter(pool, lowerAnswer, questionId) ==
    IF pool = <<>> THEN <<>>
    ELSE (IF Fires(Head(pool), lowerAnswer, questionId) THEN <<Head(pool)>> ELSE <<>>)
         \o Filter(Tail(pool), lowerAnswer, questionId)

selectFollowUps(answer, questionId, followUpQuestions) ==
    Filter(followUpQuestions, toLowerCase(answer), questionId)

\* ------------------------------------------------------------------ state
VARIABLES
    questionSet,            \* config.questionSet: coreQuestions, followUpQuestions
    maxFollowUps,           \* config.maxFollowUps
    source,                 \* which answer source is configured
    state,
    exchanges,
    currentQuestionIndex,
    askedFollowUpIds,
    remainingCoreQuestions,
    pendingFollowUps,
    startedAt,              \* TRUE when the timestamp is set
    completedAt,
    pc,                     \* where the start() coroutine stands
    question,               \* the question processQuestion is working on
    events,                 \* what the registered progress callbacks have received
    progressCallback,       \* TRUE once onProgress has registered a callback
    provided,               \* what the answer source has been asked and returned
    outstanding,            \* requests to the answer source not yet settled
    lastCall,               \* outcome of the latest call of a public method
    snapshot,               \* the snapshot the driver holds
    restoredFrom,           \* the snapshot this instance was restored from
    sessions,               \* session instances constructed so far
    call                    \* a call outside the session: arguments, progress, result

config == <<questionSet, maxFollowUps, source>>
fields == <<state, exchanges, currentQuestionIndex, askedFollowUpIds,
            remainingCoreQuestions, pendingFollowUps, startedAt, completedAt>>
run == <<pc, question, events, progressCallback, provided, outstanding>>
driver == <<snapshot, restoredFrom, sessions>>
vars == <<config, fields, run, lastCall, driver, call>>

NoQuestion == [id |-> None, text |-> None, type |-> None, followUpTrigger |-> NoTrigger]
NoSnapshot == [state |-> None]
NoCall == [op |-> None]

Sources == {"answerProvider", "cliAdapter", "none"}

Awaiting == {"await_core", "await_followup"}

\* the fields of a session as the constructor leaves them
Constructed(qs) ==
    [state |-> "ready", exchanges |-> <<>>, currentQuestionIndex |-> 0,
     askedFollowUpIds |-> {}, remainingCoreQuestions |-> qs.coreQuestions,
     pendingFollowUps |-> <<>>, startedAt |-> FALSE, completedAt |-> FALSE]

Init ==
    /\ questionSet \in { [coreQuestions |-> CorePrefix(n), followUpQuestions |-> pool] :
                           n \in 0..MaxCore, pool \in Pools }
    /\ maxFollowUps \in 0..MaxCap
    /\ source \in Sources
    /\ state = Constructed(questionSet).state
    /\ exchanges = Constructed(questionSet).exchanges
    /\ currentQuestionIndex = Constructed(questionSet).currentQuestionIndex
    /\ askedFollowUpIds = Constructed(questionSet).askedFollowUpIds
    /\ remainingCoreQuestions = Constructed(questionSet).remainingCoreQuestions
    /\ pendingFollowUps = Constructed(questionSet).pendingFollowUps
    /\ startedAt = Constructed(questionSet).startedAt
    /\ completedAt = Constructed(questionSet).completedAt
    /\ pc = "none"
    /\ question = NoQuestion
    /\ events = <<>>
    /\ progressCallback = FALSE
    /\ provided = <<>>
    /\ outstanding = 0
    /\ lastCall = NoCall
    /\ snapshot = NoSnapshot
    /\ restoredFrom = NoSnapshot
    /\ sessions = 1
    /\ call = NoCall

\* ------------------------------------------------ the session as one value
Sess == [state |-> state, exchanges |-> exchanges,
         currentQuestionIndex |-> currentQuestionIndex,
         askedFollowUpIds |-> askedFollowUpIds,
         remainingCoreQuestions |-> remainingCoreQuestions,
         pendingFollowUps |-> pendingFollowUps,
         startedAt |-> startedAt, completedAt |-> completedAt,
         pc |-> pc, question |-> question, events |-> events,
         progressCallback |-> progressCallback,
         outstanding |-> outstanding]

Install(s) ==
    /\ state' = s.state
    /\ exchanges' = s.exchanges
    /\ currentQuestionIndex' = s.currentQuestionIndex
    /\ askedFollowUpIds' = s.askedFollowUpIds
    /\ remainingCoreQuestions' = s.remainingCoreQuestions
    /\ pendingFollowUps' = s.pendingFollowUps
    /\ startedAt' = s.startedAt
    /\ completedAt' = s.completedAt
    /\ pc' = s.pc
    /\ question' = s.question
    /\ events' = s.events
    /\ progressCallback' = s.progressCallback
    /\ outstanding' = s.outstanding

getQuestionsRemaining(s) == Len(s.remainingCoreQuestions) + Len(s.pendingFollowUps)

isCancelled(s) == s.state = "cancelled"

getCurrentQuestion(s) ==
    IF s.state # "awaiting_answer" THEN NoQuestion
    ELSE IF s.remainingCoreQuestions # <<>> THEN Head(s.remainingCoreQuestions)
    ELSE IF s.pendingFollowUps # <<>> THEN Head(s.pendingFollowUps)
    ELSE NoQuestion

\* emitProgress: the event reaches the callback if one is registered
emitProgress(s, type, q, answer, remaining) ==
    IF s.progressCallback
    THEN [s EXCEPT !.events = Append(@, [type |-> type, question |-> q, answer |-> answer,
                                         questionsRemaining |-> remaining])]
    ELSE s

\* onProgress(callback): the callback is registered, or replaced by another,
\* at any moment of the session's life; the events emitted before it are not
\* delivered later
OnProgress ==
    /\ progressCallback' = TRUE
    /\ UNCHANGED <<config, fields, pc, question, events, provided, outstanding,
                   lastCall, driver, call>>

\* ---------------------------------------------------------- processQuestion
\* up to the await: state awaiting_answer, question_asked, the request is out
ProcessQuestionAsk(s, q, where) ==
    LET s1 == [s EXCEPT !.state = "awaiting_answer"]
        s2 == emitProgress(s1, "question_asked", q.id, NoAnswer, getQuestionsRemaining(s1))
    IN [s2 EXCEPT !.question = q, !.pc = where, !.outstanding = @ + 1]

\* the condition under which triggered follow-ups are queued
TriggerGate(triggered, asked, cap) ==
    Len(triggered) > 0 /\ Cardinality(asked) < cap

\* the for loop over the triggered follow-ups
RECURSIVE PushFollowUps(_, _)
PushFollowUps(s, triggered) ==
    IF triggered = <<>> THEN s
    ELSE LET followUp == Head(triggered)
             s1 == IF followUp.id \notin s.askedFollowUpIds
                   THEN LET pushed == [s EXCEPT !.pendingFollowUps = Append(@, followUp)]
                        IN emitProgress(pushed, "followup_triggered", followUp.id, NoAnswer,
                                        getQuestionsRemaining(pushed))
                   ELSE s
         IN PushFollowUps(s1, Tail(triggered))

\* what is recorded for an answered question
Exchange(q, answer, triggered) ==
    [question |-> q.text, answer |-> answer, followUpTriggered |-> triggered]

\* answer_received reported after the follow-ups were queued
RecordAnswerReportedLast(s, answer) ==
    LET q == s.question
        triggered == selectFollowUps(answer, q.id, questionSet.followUpQuestions)
        gate == TriggerGate(triggered, s.askedFollowUpIds, maxFollowUps)
        s1 == IF gate THEN PushFollowUps(s, triggered) ELSE s
        s2 == emitProgress(s1, "answer_received", q.id, answer, getQuestionsRemaining(s1))
    IN [s2 EXCEPT !.exchanges = Append(@, Exchange(q, answer, gate)),
                  !.currentQuestionIndex = @ + 1,
                  !.state = "in_progress"]

\* the flag set as submitAnswer sets it, from the triggered follow-ups alone,
\* while the queueing stays behind the cap
RecordAnswerFlagUngated(s, answer) ==
    LET q == s.question
        s1 == emitProgress(s, "answer_received", q.id, answer, getQuestionsRemaining(s))
        triggered == selectFollowUps(answer, q.id, questionSet.followUpQuestions)
        gate == TriggerGate(triggered, s1.askedFollowUpIds, maxFollowUps)
        s2 == IF gate THEN PushFollowUps(s1, triggered) ELSE s1
    IN [s2 EXCEPT !.exchanges = Append(@, Exchange(q, answer, Len(triggered) > 0)),
                  !.currentQuestionIndex = @ + 1,
                  !.state = "in_progress"]

\* an answered question: answer_received, follow-ups queued, exchange recorded
RecordAnswer(s, answer) ==
    LET q == s.question
        s1 == emitProgress(s, "answer_received", q.id, answer, getQuestionsRemaining(s))
        triggered == selectFollowUps(answer, q.id, questionSet.followUpQuestions)
        gate == TriggerGate(triggered, s1.askedFollowUpIds, maxFollowUps)
        s2 == IF gate THEN PushFollowUps(s1, triggered) ELSE s1
    IN [s2 EXCEPT !.exchanges = Append(@, Exchange(q, answer, gate)),
                  !.currentQuestionIndex = @ + 1,
                  !.state = "in_progress"]

\* the return after the cancellation left out: null is recorded like an answer
CancelOnNullFallsThrough(s) == RecordAnswer([s EXCEPT !.state = "cancelled"], Null)

\* a null answer: cancelled, and processQuestion returns at once
CancelOnNull(s) == [s EXCEPT !.state = "cancelled"]

\* every falsy answer taken for the cancellation signal
ProcessQuestionAnswerFalsy(s, answer) ==
    IF answer = Null \/ answer = <<>> THEN CancelOnNull(s) ELSE RecordAnswer(s, answer)

\* from the arrival of the answer to the end of processQuestion
ProcessQuestionAnswer(s, answer) ==
    IF answer = Null THEN CancelOnNull(s) ELSE RecordAnswer(s, answer)

\* -------------------------------------------------------------------- start
\* start() refused only in the terminal states
StartCheckNotTerminal(st, src) ==
    IF st = "completed" \/ st = "cancelled" THEN "invalid_state"
    ELSE IF src = "none" THEN "config_error"
    ELSE "ok"

\* the answer source not checked
StartCheckStateOnly(st, src) ==
    IF st # "ready" THEN "invalid_state" ELSE "ok"

\* the two preconditions of start()
StartCheck(st, src) ==
    IF st # "ready" THEN "invalid_state"
    ELSE IF src = "none" THEN "config_error"
    ELSE "ok"

\* the end of start(): completed unless cancelled, session_completed, resolve
Finish(s) ==
    LET s1 == [s EXCEPT !.state = IF isCancelled(s) THEN @ ELSE "completed",
                        !.completedAt = TRUE]
        s2 == emitProgress(s1, "session_completed", None, NoAnswer, 0)
    IN [s2 EXCEPT !.pc = "done", !.question = NoQuestion]

\* every dequeued follow-up asked
AsksFollowUpAlways(followUp, asked) == TRUE

\* whether the follow-up loop asks a dequeued follow-up
AsksFollowUp(followUp, asked) == followUp.id \notin asked

\* the pending queue taken from its end (pop in place of shift)
RECURSIVE FollowUpLoopFromEnd(_)
FollowUpLoopFromEnd(s) ==
    IF s.pendingFollowUps # <<>> /\ ~isCancelled(s)
    THEN LET followUp == s.pendingFollowUps[Len(s.pendingFollowUps)]
             s1 == [s EXCEPT !.pendingFollowUps = SubSeq(@, 1, Len(@) - 1)]
         IN IF AsksFollowUp(followUp, s1.askedFollowUpIds)
            THEN ProcessQuestionAsk(s1, followUp, "await_followup")
            ELSE FollowUpLoopFromEnd(s1)
    ELSE Finish(s)

\* the while loop over pendingFollowUps, up to the next await or the end
RECURSIVE FollowUpLoop(_)
FollowUpLoop(s) ==
    IF s.pendingFollowUps # <<>> /\ ~isCancelled(s)
    THEN LET followUp == Head(s.pendingFollowUps)
             s1 == [s EXCEPT !.pendingFollowUps = Tail(@)]
         IN IF AsksFollowUp(followUp, s1.askedFollowUpIds)
            THEN ProcessQuestionAsk(s1, followUp, "await_followup")
            ELSE FollowUpLoop(s1)
    ELSE Finish(s)

\* the core queue taken from its end (pop in place of shift)
CoreLoopFromEnd(s) ==
    IF s.remainingCoreQuestions # <<>>
    THEN ProcessQuestionAsk([s EXCEPT !.remainingCoreQuestions =
                                          SubSeq(@, 1, Len(@) - 1)],
                            s.remainingCoreQuestions[Len(s.remainingCoreQuestions)],
                            "await_core")
    ELSE FollowUpLoop(s)

\* the while loop over remainingCoreQuestions, up to the next await
CoreLoop(s) ==
    IF s.remainingCoreQuestions # <<>>
    THEN ProcessQuestionAsk([s EXCEPT !.remainingCoreQuestions = Tail(@)],
                            Head(s.remainingCoreQuestions), "await_core")
    ELSE FollowUpLoop(s)

\* start() up to its first await
StartCall ==
    LET check == StartCheck(state, source)
    IN /\ lastCall' = [op |-> "start", result |-> check, named |-> state]
       /\ IF check = "ok"
          THEN Install(CoreLoop([Sess EXCEPT !.state = "in_progress", !.startedAt = TRUE,
                                             !.exchanges = <<>>]))
          ELSE UNCHANGED <<fields, pc, question, events, progressCallback, outstanding>>
       /\ UNCHANGED <<config, provided, driver, call>>

\* the values the configured answer source can resolve with
SourceAnswers(src) ==
    IF src = "answerProvider" THEN SessionAnswers \cup {Null} ELSE SessionAnswers

\* the answer source resolves: processQuestion runs to its end
AnswerArrives ==
    /\ pc \in Awaiting
    /\ \E answer \in SourceAnswers(source) :
         /\ provided' = Append(provided, [question |-> question.id, answer |-> answer])
         /\ Install([ProcessQuestionAnswer(Sess, answer)
                       EXCEPT !.pc = IF pc = "await_core" THEN "after_core"
                                     ELSE "after_followup",
                              !.outstanding = @ - 1])
    /\ UNCHANGED <<config, lastCall, driver, call>>

\* the answer source rejects: processQuestion rejects with it
AnswerThrows ==
    /\ pc \in Awaiting
    /\ provided' = Append(provided, [question |-> question.id, answer |-> Thrown])
    /\ pc' = "throwing"
    /\ outstanding' = outstanding - 1
    /\ UNCHANGED <<config, fields, question, events, progressCallback, lastCall, driver, call>>

\* the error swallowed: start() goes on to its normal end
CatchSwallows(s) == Finish([s EXCEPT !.state = "cancelled"])

\* the catch block of start(): cancelled, and the error is thrown on
Catch(s) == [s EXCEPT !.state = "cancelled", !.pc = "failed"]

\* start() resumes after processQuestion settled
Resume ==
    /\ pc \in {"after_core", "after_followup", "throwing"}
    /\ Install(CASE pc = "after_core" ->
                      IF isCancelled(Sess) THEN FollowUpLoop(Sess) ELSE CoreLoop(Sess)
                 [] pc = "after_followup" ->
                      FollowUpLoop([Sess EXCEPT !.askedFollowUpIds = @ \cup {question.id}])
                 [] pc = "throwing" -> Catch(Sess))
    /\ UNCHANGED <<config, provided, lastCall, driver, call>>

\* ------------------------------------------------------- the other methods
\* cancel()
Cancel ==
    /\ state' = "cancelled"
    /\ completedAt' = TRUE
    /\ lastCall' = [op |-> "cancel", result |-> "ok", named |-> state]
    /\ UNCHANGED <<config, exchanges, currentQuestionIndex, askedFollowUpIds,
                   remainingCoreQuestions, pendingFollowUps, startedAt, run, driver, call>>

\* the for loop of submitAnswer over the triggered follow-ups
RECURSIVE SubmitPush(_, _, _)
SubmitPush(pending, asked, triggered) ==
    IF triggered = <<>> THEN pending
    ELSE SubmitPush(IF Head(triggered).id \notin asked
                    THEN Append(pending, Head(triggered)) ELSE pending,
                    asked, Tail(triggered))

\* Array.prototype.findIndex by question id; 0 when absent
FindIndex(qs, id) ==
    IF \E i \in 1..Len(qs) : qs[i].id = id
    THEN CHOOSE i \in 1..Len(qs) : qs[i].id = id /\ \A j \in 1..(i - 1) : qs[j].id # id
    ELSE 0

RemoveAt(qs, i) == SubSeq(qs, 1, i - 1) \o SubSeq(qs, i + 1, Len(qs))

\* the state a queue-driven method leaves the session in
StateAfterDequeue(remaining) == IF remaining > 0 THEN "in_progress" ELSE "completed"

SubmitCheck(s) ==
    IF s.state # "awaiting_answer" THEN "invalid_state"
    ELSE IF getCurrentQuestion(s) = NoQuestion THEN "no_question"
    ELSE "ok"

\* submitAnswer(answer)
SubmitAnswer ==
    \E answer \in SessionAnswers :
      LET check == SubmitCheck(Sess)
          q == getCurrentQuestion(Sess)
          triggered == selectFollowUps(answer, q.id, questionSet.followUpQuestions)
          pushed == SubmitPush(pendingFollowUps, askedFollowUpIds, triggered)
          fromCore == remainingCoreQuestions # <<>> /\ Head(remainingCoreQuestions).id = q.id
          idx == FindIndex(pushed, q.id)
          core2 == IF fromCore THEN Tail(remainingCoreQuestions) ELSE remainingCoreQuestions
          pending2 == IF ~fromCore /\ idx > 0 THEN RemoveAt(pushed, idx) ELSE pushed
      IN /\ lastCall' = [op |-> "submitAnswer", result |-> check, named |-> state]
         /\ IF check = "ok"
            THEN /\ exchanges' = Append(exchanges, Exchange(q, answer, Len(triggered) > 0))
                 /\ remainingCoreQuestions' = core2
                 /\ pendingFollowUps' = pending2
                 /\ askedFollowUpIds' = IF ~fromCore /\ idx > 0
                                        THEN askedFollowUpIds \cup {q.id}
                                        ELSE askedFollowUpIds
                 /\ currentQuestionIndex' = currentQuestionIndex + 1
                 /\ state' = StateAfterDequeue(Len(core2) + Len(pending2))
                 /\ UNCHANGED <<startedAt, completedAt>>
            ELSE UNCHANGED fields
         /\ UNCHANGED <<config, run, driver, call>>

\* skipCurrentQuestion() refused only in the terminal states
SkipCheckNotTerminal(st) ==
    IF st = "completed" \/ st = "cancelled" THEN "invalid_state" ELSE "ok"

SkipCheck(st) ==
    IF st # "awaiting_answer" /\ st # "in_progress" THEN "invalid_state" ELSE "ok"

\* skipCurrentQuestion()
SkipCurrentQuestion ==
    LET check == SkipCheck(state)
        core2 == IF remainingCoreQuestions # <<>> THEN Tail(remainingCoreQuestions)
                 ELSE remainingCoreQuestions
        pending2 == IF remainingCoreQuestions = <<>> /\ pendingFollowUps # <<>>
                    THEN Tail(pendingFollowUps) ELSE pendingFollowUps
    IN /\ lastCall' = [op |-> "skipCurrentQuestion", result |-> check, named |-> state]
       /\ IF check = "ok"
          THEN /\ remainingCoreQuestions' = core2
               /\ pendingFollowUps' = pending2
               /\ state' = StateAfterDequeue(Len(core2) + Len(pending2))
               /\ UNCHANGED <<exchanges, currentQuestionIndex, askedFollowUpIds,
                              startedAt, completedAt>>
          ELSE UNCHANGED fields
       /\ UNCHANGED <<config, run, driver, call>>

\* --------------------------------------------------------------- snapshots
Ids(qs) == [i \in 1..Len(qs) |-> qs[i].id]

\* the core queue reported as the whole core list of the question set
createSnapshotOfConfig(s) ==
    [state |-> s.state, exchanges |-> s.exchanges,
     currentQuestionIndex |-> s.currentQuestionIndex,
     askedFollowUpIds |-> s.askedFollowUpIds,
     remainingCoreQuestionIds |-> Ids(questionSet.coreQuestions),
     remainingFollowUpIds |-> Ids(s.pendingFollowUps),
     startedAt |-> s.startedAt, completedAt |-> s.completedAt]

createSnapshot(s) ==
    [state |-> s.state, exchanges |-> s.exchanges,
     currentQuestionIndex |-> s.currentQuestionIndex,
     askedFollowUpIds |-> s.askedFollowUpIds,
     remainingCoreQuestionIds |-> Ids(s.remainingCoreQuestions),
     remainingFollowUpIds |-> Ids(s.pendingFollowUps),
     startedAt |-> s.startedAt, completedAt |-> s.completedAt]

\* the driver takes a snapshot and keeps it
CreateSnapshot ==
    /\ snapshot' = createSnapshot(Sess)
    /\ UNCHANGED <<config, fields, run, lastCall, restoredFrom, sessions, call>>

\* questions.filter(q => ids.includes(q.id)): every question bearing a listed id
ResolveByFilter(ids, questions) ==
    SelectSeq(questions, LAMBDA q : \E i \in 1..Len(ids) : ids[i] = q.id)

\* ids.map(id => questions.find(q => q.id === id)).filter(q => q !== undefined)
RECURSIVE Resolve(_, _)
Resolve(ids, questions) ==
    IF ids = <<>> THEN <<>>
    ELSE LET i == FindIndex(questions, Head(ids))
         IN (IF i > 0 THEN <<questions[i]>> ELSE <<>>) \o Resolve(Tail(ids), questions)

\* restoreFromSnapshot accepted in every state
RestoreCheckAlways(st) == "ok"

RestoreCheck(st) == IF st # "ready" /\ st # "idle" THEN "invalid_state" ELSE "ok"

\* restoreFromSnapshot(snapshot) with the snapshot the driver holds
RestoreFromSnapshot ==
    /\ snapshot # NoSnapshot
    /\ LET check == RestoreCheck(state)
       IN /\ lastCall' = [op |-> "restoreFromSnapshot", result |-> check, named |-> state]
          /\ IF check = "ok"
             THEN /\ state' = snapshot.state
                  /\ exchanges' = snapshot.exchanges
                  /\ currentQuestionIndex' = snapshot.currentQuestionIndex
                  /\ askedFollowUpIds' = snapshot.askedFollowUpIds
                  /\ startedAt' = IF snapshot.startedAt THEN TRUE ELSE startedAt
                  /\ completedAt' = IF snapshot.completedAt THEN TRUE ELSE completedAt
                  /\ remainingCoreQuestions' =
                       Resolve(snapshot.remainingCoreQuestionIds, questionSet.coreQuestions)
                  /\ pendingFollowUps' =
                       Resolve(snapshot.remainingFollowUpIds, questionSet.followUpQuestions)
                  /\ restoredFrom' = snapshot
             ELSE UNCHANGED <<fields, restoredFrom>>
    /\ UNCHANGED <<config, run, snapshot, sessions, call>>

\* createInterviewSession(config): a fresh instance bound to the same QuestionSet
\* replaces the one the driver held
NewSession ==
    /\ sessions < MaxSessions
    /\ sessions' = sessions + 1
    /\ state' = Constructed(questionSet).state
    /\ exchanges' = Constructed(questionSet).exchanges
    /\ currentQuestionIndex' = Constructed(questionSet).currentQuestionIndex
    /\ askedFollowUpIds' = Constructed(questionSet).askedFollowUpIds
    /\ remainingCoreQuestions' = Constructed(questionSet).remainingCoreQuestions
    /\ pendingFollowUps' = Constructed(questionSet).pendingFollowUps
    /\ startedAt' = Constructed(questionSet).startedAt
    /\ completedAt' = Constructed(questionSet).completedAt
    /\ pc' = "none"
    /\ question' = NoQuestion
    /\ events' = <<>>
    /\ progressCallback' = FALSE
    /\ provided' = <<>>
    /\ outstanding' = 0
    /\ lastCall' = NoCall
    /\ restoredFrom' = NoSnapshot
    /\ UNCHANGED <<config, snapshot, call>>

\* ------------------------------------------- selectFollowUps called alone
InitSelect ==
    /\ questionSet = [coreQuestions |-> <<>>, followUpQuestions |-> <<>>]
    /\ maxFollowUps = 0
    /\ source = "none"
    /\ state = Constructed(questionSet).state
    /\ exchanges = Constructed(questionSet).exchanges
    /\ currentQuestionIndex = Constructed(questionSet).currentQuestionIndex
    /\ askedFollowUpIds = Constructed(questionSet).askedFollowUpIds
    /\ remainingCoreQuestions = Constructed(questionSet).remainingCoreQuestions
    /\ pendingFollowUps = Constructed(questionSet).pendingFollowUps
    /\ startedAt = Constructed(questionSet).startedAt
    /\ completedAt = Constructed(questionSet).completedAt
    /\ pc = "none"
    /\ question = NoQuestion
    /\ events = <<>>
    /\ progressCallback = FALSE
    /\ provided = <<>>
    /\ outstanding = 0
    /\ lastCall = NoCall
    /\ snapshot = NoSnapshot
    /\ restoredFrom = NoSnapshot
    /\ sessions = 1
    /\ call \in { [op |-> "selectFollowUps", answer |-> a, questionId |-> id,
                    followUpQuestions |-> pool, returned |-> FALSE, result |-> <<>>] :
                    a \in AnswerStrings, id \in QuestionIds,
                    pool \in SeqsUpTo(SelectUniverse, MaxPool) }

CallSelectFollowUps ==
    /\ call.op = "selectFollowUps"
    /\ ~call.returned
    /\ call' = [call EXCEPT !.returned = TRUE,
                             !.result = selectFollowUps(call.answer, call.questionId,
                                                        call.followUpQuestions)]
    /\ UNCHANGED <<config, fields, run, lastCall, driver>>

SpecSelect == InitSelect /\ [][CallSelectFollowUps]_vars

\* ------------------------------------------------------- MapAnswerProvider
\* the session variables while only a function or a provider is called
NoSession ==
    /\ questionSet = [coreQuestions |-> <<>>, followUpQuestions |-> <<>>]
    /\ maxFollowUps = 0
    /\ source = "none"
    /\ state = Constructed(questionSet).state
    /\ exchanges = Constructed(questionSet).exchanges
    /\ currentQuestionIndex = Constructed(questionSet).currentQuestionIndex
    /\ askedFollowUpIds = Constructed(questionSet).askedFollowUpIds
    /\ remainingCoreQuestions = Constructed(questionSet).remainingCoreQuestions
    /\ pendingFollowUps = Constructed(questionSet).pendingFollowUps
    /\ startedAt = Constructed(questionSet).startedAt
    /\ completedAt = Constructed(questionSet).completedAt
    /\ pc = "none"
    /\ question = NoQuestion
    /\ events = <<>>
    /\ progressCallback = FALSE
    /\ provided = <<>>
    /\ outstanding = 0
    /\ lastCall = NoCall
    /\ snapshot = NoSnapshot
    /\ restoredFrom = NoSnapshot
    /\ sessions = 1

\* keys and values of an answer map, ids and texts of the questions put to it
ProviderKeys == { <<"q", "1">>, <<"q", "2">>, <<"T">> }
ProviderValues == { <<"a">>, <<"b">> }
ProviderIds == { <<"q", "1">>, <<"u">> }
ProviderTexts == { <<"T", "q">>, <<"q">>, <<"z">> }
ProviderDefaults == { NoAnswer, <<"d">> }

\* a Map<string, string>: entries in insertion order, keys distinct
AnswerMaps ==
    { es \in SeqsUpTo([key : ProviderKeys, value : ProviderValues], MaxEntries) :
        \A i, j \in 1..Len(es) : es[i].key = es[j].key => i = j }

\* the MapAnswerProvider constructor: defaultAnswer ?? null
MapAnswerProvider(answers, defaultAnswer) ==
    [answers |-> answers,
     defaultAnswer |-> IF defaultAnswer = NoAnswer THEN Null ELSE defaultAnswer]

\* Map.prototype.get: undefined when the key is absent
MapGet(answers, key) ==
    IF \E i \in 1..Len(answers) : answers[i].key = key
    THEN answers[CHOOSE i \in 1..Len(answers) : answers[i].key = key].value
    ELSE NoAnswer

\* the for loop over the entries: the first whose key and the question text
\* contain one another
RECURSIVE MatchByText(_, _)
MatchByText(answers, text) ==
    IF answers = <<>> THEN NoAnswer
    ELSE IF includes(text, Head(answers).key) \/ includes(Head(answers).key, text)
         THEN Head(answers).value
         ELSE MatchByText(Tail(answers), text)

\* MapAnswerProvider.provideAnswer
provideAnswer(provider, q) ==
    LET answer == MapGet(provider.answers, q.id)
        byText == MatchByText(provider.answers, q.text)
    IN IF answer # NoAnswer THEN answer
       ELSE IF byText # NoAnswer THEN byText
       ELSE provider.defaultAnswer

InitProvide ==
    /\ NoSession
    /\ call \in { [op |-> "provideAnswer", answers |-> es, defaultAnswer |-> d,
                    question |-> [id |-> i, text |-> t],
                    returned |-> FALSE, result |-> NoAnswer] :
                    es \in AnswerMaps, d \in ProviderDefaults,
                    i \in ProviderIds, t \in ProviderTexts }

CallProvideAnswer ==
    /\ call.op = "provideAnswer"
    /\ ~call.returned
    /\ call' = [call EXCEPT !.returned = TRUE,
                             !.result = provideAnswer(
                                 MapAnswerProvider(call.answers, call.defaultAnswer),
                                 call.question)]
    /\ UNCHANGED <<config, fields, run, lastCall, driver>>

SpecProvide == InitProvide /\ [][CallProvideAnswer]_vars

\* ----------------------------------------------- InterviewQuestionGenerator
\* an option left out of the configuration object
Absent == -1

TECH_LEAD_CORE_TEMPLATES == <<
    [template |-> <<"What are the primary architectural constraints or requirements for this feature?">>,
     category |-> "architecture", priority |-> 1],
    [template |-> <<"Are there any performance requirements or SLAs that need to be considered?">>,
     category |-> "performance", priority |-> 2],
    [template |-> <<"How should this feature integrate with the existing system components?">>,
     category |-> "integration", priority |-> 3],
    [template |-> <<"What data needs to be stored, and what are the access patterns?">>,
     category |-> "data-model", priority |-> 4],
    [template |-> <<"Are there specific security or compliance requirements to address?">>,
     category |-> "security", priority |-> 5],
    [template |-> <<"What are the expected scale requirements (users, data volume, transactions)?">>,
     category |-> "performance", priority |-> 6],
    [template |-> <<"Are there any technology constraints or preferences for implementation?">>,
     category |-> "library", priority |-> 7],
    [template |-> <<"What trade-offs are you willing to make (speed vs. cost, simplicity vs. flexibility)?">>,
     category |-> "general", priority |-> 8] >>

TECH_LEAD_FOLLOWUP_TEMPLATES == <<
    [template |-> <<"Can you elaborate on the specific ", "{category}", " requirements?">>,
     category |-> "general", triggerCategory |-> None,
     hasKeywords |-> FALSE,
     triggerKeywords |-> <<>>],
    [template |-> <<"What happens if {aspect} fails? What is the fallback behavior?">>,
     category |-> "architecture", triggerCategory |-> None,
     hasKeywords |-> TRUE,
     triggerKeywords |-> <<<<"d", "e", "p", "e", "n", "d", "s", " ", "o", "n">>, <<"r", "e", "l", "i", "e", "s", " ", "o", "n">>, <<"i", "n", "t", "e", "g", "r", "a", "t", "i", "o", "n">>, <<"e", "x", "t", "e", "r", "n", "a", "l">>>>],
    [template |-> <<"How should the system handle peak load scenarios?">>,
     category |-> "performance", triggerCategory |-> None,
     hasKeywords |-> TRUE,
     triggerKeywords |-> <<<<"s", "c", "a", "l", "e">>, <<"p", "e", "r", "f", "o", "r", "m", "a", "n", "c", "e">>, <<"h", "i", "g", "h", " ", "t", "r", "a", "f", "f", "i", "c">>, <<"c", "o", "n", "c", "u", "r", "r", "e", "n", "t">>>>],
    [template |-> <<"What backward compatibility requirements exist?">>,
     category |-> "integration", triggerCategory |-> None,
     hasKeywords |-> TRUE,
     triggerKeywords |-> <<<<"e", "x", "i", "s", "t", "i", "n", "g">>, <<"l", "e", "g", "a", "c", "y">>, <<"m", "i", "g", "r", "a", "t", "i", "o", "n">>, <<"u", "p", "g", "r", "a", "d", "e">>>>],
    [template |-> <<"What authentication/authorization model should be used?">>,
     category |-> "security", triggerCategory |-> "security",
     hasKeywords |-> FALSE,
     triggerKeywords |-> <<>>],
    [template |-> <<"Should the data model support future extensibility?">>,
     category |-> "data-model", triggerCategory |-> "data-model",
     hasKeywords |-> FALSE,
     triggerKeywords |-> <<>>],
    [template |-> <<"What caching strategy would be appropriate?">>,
     category |-> "performance", triggerCategory |-> None,
     hasKeywords |-> TRUE,
     triggerKeywords |-> <<<<"p", "e", "r", "f", "o", "r", "m", "a", "n", "c", "e">>, <<"l", "a", "t", "e", "n", "c", "y">>, <<"f", "a", "s", "t">>, <<"c", "a", "c", "h", "e">>>>],
    [template |-> <<"Are there any API versioning requirements?">>,
     category |-> "api-design", triggerCategory |-> "api-design",
     hasKeywords |-> FALSE,
     triggerKeywords |-> <<>>] >>

DEFAULT_CONFIG ==
    [minCoreQuestions |-> 5, maxCoreQuestions |-> 8, maxFollowUpQuestions |-> 8]

\* the constructor: {...DEFAULT_CONFIG, ...config}
InterviewQuestionGenerator(cfg) ==
    [f \in DOMAIN DEFAULT_CONFIG |-> IF cfg[f] = Absent THEN DEFAULT_CONFIG[f] ELSE cfg[f]]

\* the scored decisions and ambiguities an analysis result is made of
DecisionTable == <<
    [title |-> "Auth Strategy", category |-> "security", needsClarification |-> TRUE,
     ambiguityLevel |-> "unclear", options |-> <<>>],
    [title |-> "Caching", category |-> "performance", needsClarification |-> TRUE,
     ambiguityLevel |-> "moderate", options |-> <<"Redis", "Memcached">>],
    [title |-> "Database Schema", category |-> "data-model", needsClarification |-> FALSE,
     ambiguityLevel |-> "moderate", options |-> <<>>] >>

AmbiguityTable == <<
    [description |-> "Unclear area", suggestedQuestions |-> <<>>],
    [description |-> "Auth token", suggestedQuestions |-> << <<"OAuth or JWT?">> >>],
    [description |-> "Constraints",
     suggestedQuestions |-> << TECH_LEAD_CORE_TEMPLATES[1].template >>] >>

Range(table) == { table[i] : i \in 1..Len(table) }

AnalysisResults ==
    { [scoredDecisions |-> ds, ambiguities |-> as] :
        ds \in SeqsUpTo(Range(DecisionTable), MaxDecisions),
        as \in SeqsUpTo(Range(AmbiguityTable), MaxAmbiguities) }

GeneratorConfigs ==
    { [minCoreQuestions |-> lo, maxCoreQuestions |-> hi, maxFollowUpQuestions |-> fu] :
        lo \in {Absent, 0, 6, 9}, hi \in {Absent, 2, 6, 10}, fu \in {Absent, 0, 1, 2} }

\* the switch of createDecisionQuestion: the wording around the title
DecisionWording(category) ==
    CASE category = "architecture" ->
           <<"Regarding \"", "\": What architectural approach would you prefer, and what are your constraints?">>
      [] category = "library" ->
           <<"For \"", "\": Do you have preferences or requirements for the libraries/frameworks to use?">>
      [] category = "pattern" ->
           <<"About \"", "\": What design patterns or implementation approaches should be considered?">>
      [] category = "integration" ->
           <<"Concerning \"", "\": How should this integrate with existing systems?">>
      [] category = "data-model" ->
           <<"For \"", "\": What are the data requirements and relationships to consider?">>
      [] category = "api-design" ->
           <<"Regarding \"", "\": What API design principles or constraints apply?">>
      [] category = "security" ->
           <<"About \"", "\": What security requirements must be addressed?">>
      [] category = "performance" ->
           <<"For \"", "\": What performance requirements or optimizations are needed?">>
      [] OTHER -> <<"Can you clarify the requirements for \"", "\"?">>

createDecisionQuestion(decision, index) ==
    [id |-> <<"decision", "-", index + 1>>,
     text |-> <<DecisionWording(decision.category)[1], decision.title,
                DecisionWording(decision.category)[2]>>,
     type |-> "core",
     category |-> decision.category,
     priority |-> IF decision.needsClarification THEN 1 ELSE 5,
     relatedDecisionTitle |-> decision.title,
     relatedAmbiguityDescription |-> None,
     followUpTrigger |-> NoTrigger]

createAmbiguityQuestion(ambiguity, index) ==
    [id |-> <<"ambiguity", "-", index + 1>>,
     text |-> IF ambiguity.suggestedQuestions # <<>> /\ ambiguity.suggestedQuestions[1] # <<>>
              THEN ambiguity.suggestedQuestions[1]
              ELSE <<"Can you clarify: ", ambiguity.description, "?">>,
     type |-> "core",
     category |-> "general",
     priority |-> 2,
     relatedDecisionTitle |-> None,
     relatedAmbiguityDescription |-> ambiguity.description,
     followUpTrigger |-> NoTrigger]

\* a question for every decision, flagged or not
RECURSIVE AddDecisionQuestionsAll(_, _, _)
AddDecisionQuestionsAll(decisions, acc, cfg) ==
    IF decisions = <<>> THEN acc
    ELSE LET decision == Head(decisions)
             next == IF Len(acc.questions) < cfg.maxCoreQuestions
                     THEN [questions |-> Append(acc.questions,
                               createDecisionQuestion(decision, Len(acc.questions))),
                           usedCategories |-> acc.usedCategories \cup {decision.category}]
                     ELSE acc
         IN AddDecisionQuestionsAll(Tail(decisions), next, cfg)

\* the first loop of generateCoreQuestions
RECURSIVE AddDecisionQuestions(_, _, _)
AddDecisionQuestions(decisions, acc, cfg) ==
    IF decisions = <<>> THEN acc
    ELSE LET decision == Head(decisions)
             next == IF decision.needsClarification
                        /\ Len(acc.questions) < cfg.maxCoreQuestions
                     THEN [questions |-> Append(acc.questions,
                               createDecisionQuestion(decision, Len(acc.questions))),
                           usedCategories |-> acc.usedCategories \cup {decision.category}]
                     ELSE acc
         IN AddDecisionQuestions(Tail(decisions), next, cfg)

\* the second loop of generateCoreQuestions
RECURSIVE AddAmbiguityQuestions(_, _, _)
AddAmbiguityQuestions(ambiguities, acc, cfg) ==
    IF ambiguities = <<>> THEN acc
    ELSE LET next == IF Len(acc.questions) < cfg.maxCoreQuestions
                     THEN [acc EXCEPT !.questions = Append(@,
                               createAmbiguityQuestion(Head(ambiguities), Len(acc.questions)))]
                     ELSE acc
         IN AddAmbiguityQuestions(Tail(ambiguities), next, cfg)

\* the id of a template question without its number
TemplateCoreIdUnnumbered(role, n) == <<role, "-core-", 0>>

\* the id of a core question made from a template
TemplateCoreId(role, n) == <<role, "-core-", n>>

\* the third loop of generateCoreQuestions, with its break and its continue
RECURSIVE AddTemplateQuestions(_, _, _, _)
AddTemplateQuestions(templates, acc, cfg, role) ==
    IF templates = <<>> \/ Len(acc.questions) >= cfg.maxCoreQuestions THEN acc
    ELSE LET template == Head(templates)
             q == [id |-> TemplateCoreId(role, Len(acc.questions) + 1),
                   text |-> template.template,
                   type |-> "core",
                   category |-> template.category,
                   priority |-> template.priority,
                   relatedDecisionTitle |-> None,
                   relatedAmbiguityDescription |-> None,
                   followUpTrigger |-> NoTrigger]
             skip == Len(acc.questions) >= cfg.minCoreQuestions
                        /\ template.category \in acc.usedCategories
             next == IF ~skip /\ \A i \in 1..Len(acc.questions) :
                                    acc.questions[i].text # q.text
                     THEN [acc EXCEPT !.questions = Append(@, q)]
                     ELSE acc
         IN AddTemplateQuestions(Tail(templates), next, cfg, role)

\* a sort by priority that puts the later of two equal questions first
RECURSIVE SortByPriorityUnstable(_)
SortByPriorityUnstable(qs) ==
    IF qs = <<>> THEN <<>>
    ELSE LET i == CHOOSE i \in 1..Len(qs) :
                    /\ \A j \in 1..Len(qs) : qs[j].priority >= qs[i].priority
                    /\ \A j \in (i + 1)..Len(qs) : qs[j].priority > qs[i].priority
         IN <<qs[i]>> \o SortByPriorityUnstable(RemoveAt(qs, i))

\* Array.prototype.sort by priority (stable)
RECURSIVE SortByPriority(_)
SortByPriority(qs) ==
    IF qs = <<>> THEN <<>>
    ELSE LET i == CHOOSE i \in 1..Len(qs) :
                    /\ \A j \in 1..Len(qs) : qs[j].priority >= qs[i].priority
                    /\ \A j \in 1..(i - 1) : qs[j].priority > qs[i].priority
         IN <<qs[i]>> \o SortByPriority(RemoveAt(qs, i))

\* the list returned whole
sliceNothing(qs, n) == qs

\* Array.prototype.slice(0, n) for n >= 0
slice(qs, n) == SubSeq(qs, 1, IF n < Len(qs) THEN n ELSE Len(qs))

generateCoreQuestions(analysisResult, role, cfg) ==
    LET start == [questions |-> <<>>, usedCategories |-> {}]
        decided == AddDecisionQuestions(analysisResult.scoredDecisions, start, cfg)
        clarified == AddAmbiguityQuestions(analysisResult.ambiguities, decided, cfg)
        filled == AddTemplateQuestions(TECH_LEAD_CORE_TEMPLATES, clarified, cfg, role)
    IN slice(SortByPriority(filled.questions), cfg.maxCoreQuestions)

\* Array.prototype.join
RECURSIVE Join(_, _)
Join(parts, separator) ==
    IF Len(parts) <= 1 THEN parts
    ELSE <<Head(parts), separator>> \o Join(Tail(parts), separator)

\* the trigger pointed at the decision's own question, taken to be decision-n
createDecisionFollowUpOwnQuestion(decision, coreQuestion, index) ==
    [id |-> <<"decision", "-followup-", index + 1>>,
     text |-> <<"Can you elaborate on the trade-offs you'd consider for \"",
                decision.title, "\"?">>,
     type |-> "follow-up",
     category |-> decision.category,
     priority |-> index + 10,
     relatedDecisionTitle |-> decision.title,
     relatedAmbiguityDescription |-> None,
     followUpTrigger |-> [has |-> TRUE, afterQuestionId |-> <<"decision", "-", index + 1>>,
                          alwaysAsk |-> decision.ambiguityLevel = "unclear",
                          hasKeywords |-> FALSE, triggerKeywords |-> <<>>]]

createDecisionFollowUp(decision, coreQuestion, index) ==
    [id |-> <<"decision", "-followup-", index + 1>>,
     text |-> IF Len(decision.options) > 0
              THEN <<"Between ">> \o Join(decision.options, " and ")
                     \o <<", which would you lean toward and why?">>
              ELSE <<"Can you elaborate on the trade-offs you'd consider for \"",
                     decision.title, "\"?">>,
     type |-> "follow-up",
     category |-> decision.category,
     priority |-> index + 10,
     relatedDecisionTitle |-> decision.title,
     relatedAmbiguityDescription |-> None,
     followUpTrigger |-> [has |-> TRUE, afterQuestionId |-> coreQuestion.id,
                          alwaysAsk |-> decision.ambiguityLevel = "unclear",
                          hasKeywords |-> FALSE, triggerKeywords |-> <<>>]]

\* Array.prototype.find, given the positions of the elements that pass
Find(qs, passing) == qs[CHOOSE i \in passing : \A j \in passing : i <= j]

\* the core questions a decision is related to
RelatedCore(coreQuestions, decision) ==
    { i \in 1..Len(coreQuestions) :
        \/ coreQuestions[i].relatedDecisionTitle = decision.title
        \/ coreQuestions[i].category = decision.category }

\* the core questions a follow-up template could follow up on
TriggerQuestions(coreQuestions, template) ==
    { i \in 1..Len(coreQuestions) :
        \/ coreQuestions[i].category = template.category
        \/ coreQuestions[i].category = template.triggerCategory }

\* the first loop of generateFollowUpQuestions
RECURSIVE AddDecisionFollowUps(_, _, _)
AddDecisionFollowUps(decisions, coreQuestions, followUps) ==
    IF decisions = <<>> THEN followUps
    ELSE LET decision == Head(decisions)
             related == RelatedCore(coreQuestions, decision)
             next == IF decision.ambiguityLevel \in {"moderate", "unclear"}
                        /\ related # {}
                     THEN Append(followUps,
                                 createDecisionFollowUp(decision,
                                     Find(coreQuestions, related), Len(followUps)))
                     ELSE followUps
         IN AddDecisionFollowUps(Tail(decisions), coreQuestions, next)

\* String.prototype.replace: the first occurrence of the placeholder
RECURSIVE replace(_, _, _)
replace(text, placeholder, value) ==
    IF text = <<>> THEN <<>>
    ELSE IF Head(text) = placeholder THEN <<value>> \o Tail(text)
    ELSE <<Head(text)>> \o replace(Tail(text), placeholder, value)

\* the second loop of generateFollowUpQuestions, with its break
RECURSIVE AddTemplateFollowUps(_, _, _, _, _)
AddTemplateFollowUps(templates, coreQuestions, followUps, cfg, role) ==
    IF templates = <<>> \/ Len(followUps) >= cfg.maxFollowUpQuestions THEN followUps
    ELSE LET template == Head(templates)
             triggering == TriggerQuestions(coreQuestions, template)
             triggerQuestion == Find(coreQuestions, triggering)
             followUp ==
                 [id |-> <<role, "-followup-", Len(followUps) + 1>>,
                  text |-> replace(template.template, "{category}", template.category),
                  type |-> "follow-up",
                  category |-> template.category,
                  priority |-> Len(followUps) + 10,
                  relatedDecisionTitle |-> None,
                  relatedAmbiguityDescription |-> None,
                  followUpTrigger |->
                      IF template.hasKeywords
                      THEN Keywords(triggerQuestion.id, template.triggerKeywords)
                      ELSE AlwaysAsk(triggerQuestion.id)]
             next == IF triggering # {}
                        /\ \A i \in 1..Len(followUps) : followUps[i].text # followUp.text
                     THEN Append(followUps, followUp)
                     ELSE followUps
         IN AddTemplateFollowUps(Tail(templates), coreQuestions, next, cfg, role)

generateFollowUpQuestions(analysisResult, coreQuestions, role, cfg) ==
    LET probing == AddDecisionFollowUps(analysisResult.scoredDecisions, coreQuestions, <<>>)
        all == AddTemplateFollowUps(TECH_LEAD_FOLLOWUP_TEMPLATES, coreQuestions, probing,
                                    cfg, role)
    IN slice(all, cfg.maxFollowUpQuestions)

Larger(a, b) == IF a < b THEN b ELSE a

Min(a, b) == IF a < b THEN a ELSE b

generateTechLeadQuestions(analysisResult, cfg) ==
    LET coreQuestions == generateCoreQuestions(analysisResult, "tech-lead", cfg)
        followUpQuestions ==
            generateFollowUpQuestions(analysisResult, coreQuestions, "tech-lead", cfg)
    IN [role |-> "tech-lead",
        coreQuestions |-> coreQuestions,
        followUpQuestions |-> followUpQuestions,
        estimatedQuestionCount |->
            [min |-> Len(coreQuestions),
             max |-> Len(coreQuestions)
                       + Min(Len(followUpQuestions), cfg.maxFollowUpQuestions)]]

\* one generator instance, called repeatedly with the same analysis result
InitGenerate ==
    /\ NoSession
    /\ call \in { [op |-> "generateTechLeadQuestions", analysisResult |-> a,
                    config |-> c, results |-> <<>>] :
                    a \in AnalysisResults, c \in GeneratorConfigs }

CallGenerate ==
    /\ call.op = "generateTechLeadQuestions"
    /\ Len(call.results) < MaxCalls
    /\ call' = [call EXCEPT !.results =
                    Append(@, generateTechLeadQuestions(call.analysisResult,
                                  InterviewQuestionGenerator(call.config)))]
    /\ UNCHANGED <<config, fields, run, lastCall, driver>>

SpecGenerate == InitGenerate /\ [][CallGenerate]_vars

\* ------------------------------------------------------ PipelineOrchestrator
StakeholderRoles == {"tech-lead", "qa", "ux"}

DEFAULT_STAKEHOLDER_ORDER == <<"tech-lead", "qa", "ux">>

\* config.stakeholders: left out, or any list of roles
StakeholderConfigs ==
    {[given |-> FALSE, stakeholders |-> <<>>]} \cup
    { [given |-> TRUE, stakeholders |-> st] :
        st \in UNION { [1..n -> StakeholderRoles] : n \in 0..MaxStakeholders } }

\* what an agent may have found; the result carries the agent's role
Findings == {"a", "b"}

\* constructor: config?.stakeholders ?? DEFAULT_STAKEHOLDER_ORDER
PipelineOrchestrator(cfg) ==
    IF cfg.given THEN cfg.stakeholders ELSE DEFAULT_STAKEHOLDER_ORDER

\* initializeAgents: the roles that have an agent in the map
initializeAgents(configuredStakeholders) ==
    { configuredStakeholders[i] : i \in 1..Len(configuredStakeholders) }
        \cap StakeholderRoles

\* only the result of the interview before
PreviousInterviewsLatest(interviews) ==
    IF interviews = <<>> THEN <<>> ELSE <<interviews[Len(interviews)]>>

\* previousInterviews: [...interviews]
PreviousInterviews(interviews) == interviews

\* a call of run that has not reached its loop yet
NewRun == [position |-> 0, interviews |-> <<>>, progress |-> <<>>,
           settled |-> "pending", result |-> <<>>]

\* the loop of the r-th call of run from the role at position i up to its
\* next await, or to its return when no role is left
RECURSIVE RunLoop(_, _, _)
RunLoop(c, r, i) ==
    IF i > Len(c.configuredStakeholders)
    THEN [c EXCEPT !.runs[r].position = 0,
                   !.runs[r].progress = Append(@, [type |-> "pipeline_complete",
                                                   stakeholder |-> None]),
                   !.runs[r].settled = "fulfilled",
                   !.runs[r].result = c.runs[r].interviews]
    ELSE IF c.configuredStakeholders[i] \notin initializeAgents(c.configuredStakeholders)
    THEN RunLoop(c, r, i + 1)
    ELSE [c EXCEPT !.runs[r].position = i,
                   !.runs[r].progress = Append(@, [type |-> "stakeholder_start",
                                                   stakeholder |-> c.configuredStakeholders[i]]),
                   !.handed = Append(@, [agent |-> c.configuredStakeholders[i],
                                         by |-> <<"run", r>>,
                                         previousInterviews |->
                                             PreviousInterviews(c.runs[r].interviews)]),
                   !.conducting = @ + 1]

\* an optional list of interview results: left out, or one result found by ux
OptionalInterviews(finding) ==
    { [given |-> FALSE, value |-> <<>>],
      [given |-> TRUE, value |-> <<[stakeholderRole |-> "ux", finding |-> finding]>>] }

\* runSingle: previousInterviews ?? context.previousInterviews ?? []
contextWithPrevious(previousInterviews, contextPrevious) ==
    IF previousInterviews.given THEN previousInterviews.value
    ELSE IF contextPrevious.given THEN contextPrevious.value
    ELSE <<>>

InitPipeline ==
    /\ NoSession
    /\ call \in { [op |-> "run",
                    configuredStakeholders |-> PipelineOrchestrator(st),
                    runs |-> <<>>, singles |-> <<>>, handed |-> <<>>,
                    conducting |-> 0] :
                    st \in StakeholderConfigs }

\* run is called, whatever other calls are pending, and runs up to its first
\* await
Run ==
    /\ call.op = "run"
    /\ Len(call.runs) < MaxRuns
    /\ call' = RunLoop([call EXCEPT !.runs = Append(@, NewRun)], Len(call.runs) + 1, 1)
    /\ UNCHANGED <<config, fields, run, lastCall, driver>>

\* the conductInterview a call of run awaits resolves: the result is pushed,
\* progress is reported and the loop goes on
ConductInterviewReturns ==
    /\ call.op = "run"
    /\ \E r \in 1..Len(call.runs) :
          /\ call.runs[r].settled = "pending"
          /\ \E f \in Findings :
                LET role == call.configuredStakeholders[call.runs[r].position]
                    result == [stakeholderRole |-> role, finding |-> f]
                IN call' = RunLoop([call EXCEPT
                                       !.conducting = @ - 1,
                                       !.runs[r].interviews = Append(@, result),
                                       !.runs[r].progress =
                                           Append(@, [type |-> "stakeholder_complete",
                                                      stakeholder |-> role])],
                                   r, call.runs[r].position + 1)
    /\ UNCHANGED <<config, fields, run, lastCall, driver>>

\* the conductInterview a call of run awaits rejects: that call rejects with it
ConductInterviewThrows ==
    /\ call.op = "run"
    /\ \E r \in 1..Len(call.runs) :
          /\ call.runs[r].settled = "pending"
          /\ call' = [call EXCEPT !.conducting = @ - 1,
                                  !.runs[r].settled = "rejected"]
    /\ UNCHANGED <<config, fields, run, lastCall, driver>>

\* runSingle is called: it rejects when the role has no agent, and otherwise
\* hands the agent the context and returns the promise of conductInterview
RunSingle ==
    /\ call.op = "run"
    /\ Len(call.singles) < MaxSingles
    /\ \E role \in StakeholderRoles, previousInterviews \in OptionalInterviews("z"),
          contextPrevious \in OptionalInterviews("y") :
          IF role \notin initializeAgents(call.configuredStakeholders)
          THEN call' = [call EXCEPT !.singles =
                           Append(@, [role |-> role, settled |-> "rejected",
                                      result |-> <<>>])]
          ELSE call' = [call EXCEPT
                           !.singles = Append(@, [role |-> role, settled |-> "pending",
                                                  result |-> <<>>]),
                           !.handed = Append(@, [agent |-> role,
                                                 by |-> <<"runSingle", Len(call.singles) + 1>>,
                                                 previousInterviews |->
                                                     contextWithPrevious(previousInterviews,
                                                                         contextPrevious)]),
                           !.conducting = @ + 1]
    /\ UNCHANGED <<config, fields, run, lastCall, driver>>

\* the conductInterview that runSingle returned resolves
RunSingleReturns ==
    /\ call.op = "run"
    /\ \E k \in 1..Len(call.singles), f \in Findings :
          /\ call.singles[k].settled = "pending"
          /\ call' = [call EXCEPT
                         !.conducting = @ - 1,
                         !.singles[k].settled = "fulfilled",
                         !.singles[k].result =
                             <<[stakeholderRole |-> call.singles[k].role, finding |-> f]>>]
    /\ UNCHANGED <<config, fields, run, lastCall, driver>>

\* the conductInterview that runSingle returned rejects
RunSingleThrows ==
    /\ call.op = "run"
    /\ \E k \in 1..Len(call.singles) :
          /\ call.singles[k].settled = "pending"
          /\ call' = [call EXCEPT !.conducting = @ - 1,
                                  !.singles[k].settled = "rejected"]
    /\ UNCHANGED <<config, fields, run, lastCall, driver>>

NextPipeline ==
    \/ Run
    \/ ConductInterviewReturns
    \/ ConductInterviewThrows
    \/ RunSingle
    \/ RunSingleReturns
    \/ RunSingleThrows

SpecPipeline == InitPipeline /\ [][NextPipeline]_vars

\* ------------------------------------------------------------ specifications
\* a driver that calls start() once and then only waits for it, registering
\* a progress callback when it likes
NextRun ==
    \/ OnProgress
    \/ (pc = "none" /\ lastCall = NoCall /\ StartCall)
    \/ AnswerArrives
    \/ AnswerThrows
    \/ Resume

SpecRun == Init /\ [][NextRun]_vars

\* a driver that calls any method at any time on one instance
Next ==
    \/ OnProgress
    \/ StartCall
    \/ AnswerArrives
    \/ AnswerThrows
    \/ Resume
    \/ Cancel
    \/ SubmitAnswer
    \/ SkipCurrentQuestion

Spec == Init /\ [][Next]_vars

\* a driver that snapshots a session and restores into a fresh instance
NextResume ==
    \/ OnProgress
    \/ (lastCall = NoCall /\ StartCall)
    \/ AnswerArrives
    \/ AnswerThrows
    \/ Resume
    \/ (snapshot = NoSnapshot /\ CreateSnapshot)
    \/ (snapshot # NoSnapshot /\ NewSession)
    \/ (sessions > 1 /\ lastCall = NoCall /\ RestoreFromSnapshot)
    \/ (restoredFrom # NoSnapshot /\ StartCall)

SpecResume == Init /\ [][NextResume]_vars

\* a driver that calls any method at any time on one instance, restoring the
\* snapshot it took of the newly constructed session; it registers its
\* progress callback, if it does, before its first call
NextGuards ==
    \/ (lastCall = NoCall /\ pc = "none" /\ OnProgress)
    \/ StartCall
    \/ AnswerArrives
    \/ AnswerThrows
    \/ Resume
    \/ Cancel
    \/ SubmitAnswer
    \/ SkipCurrentQuestion
    \/ (snapshot = NoSnapshot /\ lastCall = NoCall /\ pc = "none" /\ CreateSnapshot)
    \/ RestoreFromSnapshot

SpecGuards == Init /\ [][NextGuards]_vars

\* snapshots persisted elsewhere: their id lists may name questions the
\* session's own question set does not hold
ForeignSnapshots ==
    { [state |-> st, exchanges |-> <<>>, currentQuestionIndex |-> 0,
       askedFollowUpIds |-> {},
       remainingCoreQuestionIds |-> coreIds,
       remainingFollowUpIds |-> followUpIds,
       startedAt |-> TRUE, completedAt |-> FALSE] :
        st \in {"in_progress", "awaiting_answer"},
        coreIds \in SeqsUpTo({ CoreIdTable[i] : i \in 1..(MaxCore + 1) }, MaxSnapshotIds),
        followUpIds \in SeqsUpTo({ FollowUpIdTable[i] : i \in 1..Len(FollowUpIdTable) },
                                 MaxSnapshotIds) }

\* a newly constructed session and a snapshot handed to the driver
InitRestore ==
    /\ questionSet \in { [coreQuestions |-> CorePrefix(n), followUpQuestions |-> pool] :
                           n \in 0..MaxCore, pool \in Pools }
    /\ maxFollowUps = MaxCap
    /\ source = "answerProvider"
    /\ state = Constructed(questionSet).state
    /\ exchanges = Constructed(questionSet).exchanges
    /\ currentQuestionIndex = Constructed(questionSet).currentQuestionIndex
    /\ askedFollowUpIds = Constructed(questionSet).askedFollowUpIds
    /\ remainingCoreQuestions = Constructed(questionSet).remainingCoreQuestions
    /\ pendingFollowUps = Constructed(questionSet).pendingFollowUps
    /\ startedAt = Constructed(questionSet).startedAt
    /\ completedAt = Constructed(questionSet).completedAt
    /\ pc = "none"
    /\ question = NoQuestion
    /\ events = <<>>
    /\ progressCallback = FALSE
    /\ provided = <<>>
    /\ outstanding = 0
    /\ lastCall = NoCall
    /\ snapshot \in ForeignSnapshots
    /\ restoredFrom = NoSnapshot
    /\ sessions = 1
    /\ call = NoCall

\* the driver restores the snapshot into the new session
NextRestore == lastCall = NoCall /\ RestoreFromSnapshot

SpecRestore == InitRestore /\ [][NextRestore]_vars

\* a session driven from outside: restored from a snapshot, then answered
\* through submitAnswer, start() never being called
NextExternal ==
    \/ OnProgress
    \/ (lastCall = NoCall /\ RestoreFromSnapshot)
    \/ (lastCall # NoCall /\ SubmitAnswer)

SpecExternal == InitRestore /\ [][NextExternal]_vars

\* a driver awaiting start() with an answer source that always settles: a
\* pending request is eventually resolved or rejected, and start() resumes
\* once processQuestion has settled
SpecRunFair ==
    /\ Init
    /\ [][NextRun]_vars
    /\ WF_vars(AnswerArrives \/ AnswerThrows)
    /\ WF_vars(Resume)

\* ================================================================== claims
\* the ids announced by question_asked events, in order
RECURSIVE AskedIds(_)
AskedIds(evs) ==
    IF evs = <<>> THEN <<>>
    ELSE (IF Head(evs).type = "question_asked" THEN <<Head(evs).question>> ELSE <<>>)
         \o AskedIds(Tail(evs))

\* the ids of the questions put to the answer source, in order: those it has
\* settled, and the one it is working on
AskedOfSource(prov, out, q) ==
    [i \in 1..Len(prov) |-> prov[i].question] \o (IF out > 0 THEN <<q.id>> ELSE <<>>)

\* the questions asked so far, whether or not a progress callback heard of them
Asked == AskedOfSource(provided, outstanding, question)

FollowUpIdSet == { FollowUpIdTable[i] : i \in 1..Len(FollowUpIdTable) }

\* keyword k occurs in s at some offset, letter case ignored
OccursIgnoringCase(k, s) ==
    \E off \in 0..(Len(s) - Len(k)) :
        \A p \in 1..Len(k) : LowerChar(s[off + p]) = LowerChar(k[p])

\* the claimed selection rule for one follow-up
ShouldFire(f, answer, questionId) ==
    /\ f.followUpTrigger.has
    /\ f.followUpTrigger.afterQuestionId = questionId
    /\ \/ f.followUpTrigger.alwaysAsk
       \/ /\ f.followUpTrigger.hasKeywords
          /\ \E i \in 1..Len(f.followUpTrigger.triggerKeywords) :
                OccursIgnoringCase(f.followUpTrigger.triggerKeywords[i], answer)

\* the entries of pool that should fire, in pool order
ExpectedSelection(pool, answer, questionId) ==
    LET hit == { i \in 1..Len(pool) : ShouldFire(pool[i], answer, questionId) }
        nth(j) == CHOOSE i \in hit : Cardinality({ h \in hit : h < i }) = j - 1
    IN [j \in 1..Cardinality(hit) |-> pool[nth(j)]]

\* C8: selectFollowUps returns, in pool order, exactly the follow-ups
\* conditioned on the answered question that have alwaysAsk set or a keyword
\* occurring case-insensitively in the answer; a follow-up without trigger or
\* conditioned on another question is never returned.
C8_SelectFollowUpsExact ==
    (call.op = "selectFollowUps" /\ call.returned) =>
        /\ call.result = ExpectedSelection(call.followUpQuestions, call.answer,
                                           call.questionId)
        /\ \A j \in 1..Len(call.result) :
              /\ call.result[j].followUpTrigger.has
              /\ call.result[j].followUpTrigger.afterQuestionId = call.questionId

\* a keyword follow-up fired on a mixed-case substring, another entry did not
C8_Witness ==
    /\ call.op = "selectFollowUps" /\ call.returned
    /\ Len(call.followUpQuestions) = 2
    /\ Len(call.result) = 1
    /\ call.result[1].followUpTrigger.hasKeywords
    /\ call.answer = <<"x", "l", "A">>

\* the follow-up ids start() has asked so far
AskedFollowUps ==
    { Asked[i] : i \in 1..Len(Asked) } \cap FollowUpIdSet

\* C1: with an empty follow-up pool and only non-cancellation answers, start()
\* resolves with one exchange per core question, the i-th holding the text of
\* coreQuestions[i] and the answer given to it, in state completed.
C1_CoreOnlyRunCompletes ==
    ( /\ pc = "done"
      /\ questionSet.followUpQuestions = <<>>
      /\ \A k \in 1..Len(provided) : provided[k].answer # Null )
    => /\ state = "completed"
       /\ Len(exchanges) = Len(questionSet.coreQuestions)
       /\ Len(provided) = Len(questionSet.coreQuestions)
       /\ \A i \in 1..Len(exchanges) :
             /\ exchanges[i].question = questionSet.coreQuestions[i].text
             /\ provided[i].question = questionSet.coreQuestions[i].id
             /\ exchanges[i].answer = provided[i].answer

\* a run over two core questions, differently answered, has resolved
C1_Witness ==
    /\ pc = "done"
    /\ questionSet.followUpQuestions = <<>>
    /\ Len(questionSet.coreQuestions) = 2
    /\ Len(exchanges) = 2
    /\ exchanges[1].answer # exchanges[2].answer
    /\ state = "completed"

\* C2: when the answer source returns null for the k-th question asked, the
\* session is cancelled, the exchanges are exactly the k-1 recorded before, and
\* no further question is asked.
C2_NullAnswerCancels ==
    \A k \in 1..Len(provided) :
        provided[k].answer = Null =>
            /\ k = Len(provided)
            /\ Len(Asked) = k
            /\ state = "cancelled"
            /\ Len(exchanges) = k - 1
            /\ \A i \in 1..(k - 1) : exchanges[i].answer = provided[i].answer

\* the third question asked was answered null and start() has resolved
C2_Witness ==
    /\ pc = "done"
    /\ Len(provided) = 3
    /\ provided[3].answer = Null
    /\ Len(exchanges) = 2

\* null answered to the very first question
C2_WitnessFirst ==
    /\ pc = "done"
    /\ Len(provided) = 1
    /\ provided[1].answer = Null
    /\ exchanges = <<>>

\* C3 (as claimed): the number of distinct follow-up questions asked in a run
\* of start() never exceeds maxFollowUps.
C3_FollowUpCapRespected ==
    Cardinality(AskedFollowUps) <= maxFollowUps

\* the follow-ups an answer step appended to the pending queue
NewlyQueued == SubSeq(pendingFollowUps', Len(pendingFollowUps) + 1, Len(pendingFollowUps'))

InSeq(x, xs) == \E i \in 1..Len(xs) : xs[i] = x

\* the step in which the answer to a core question arrives
CoreAnswerStep ==
    /\ pc = "await_core"
    /\ pc' = "after_core"
    /\ provided'[Len(provided')].answer # Null

\* what C7 says of the follow-ups conditioned on the answered core question
QueuedAsClaimed ==
    LET answer == provided'[Len(provided')].answer
        pool == questionSet.followUpQuestions
    IN \A i \in 1..Len(pool) :
         LET f == pool[i] IN
         (f.followUpTrigger.has /\ f.followUpTrigger.afterQuestionId = question.id) =>
            /\ f.followUpTrigger.alwaysAsk => InSeq(f, NewlyQueued)
            /\ (~f.followUpTrigger.alwaysAsk /\ f.followUpTrigger.hasKeywords) =>
                  (InSeq(f, NewlyQueued) <=>
                     \E j \in 1..Len(f.followUpTrigger.triggerKeywords) :
                        OccursIgnoringCase(f.followUpTrigger.triggerKeywords[j], answer))

\* C7: after core question Q is answered, an alwaysAsk follow-up conditioned
\* on Q is always queued, and a keyword follow-up conditioned on Q is queued
\* iff the answer contains one of its keywords case-insensitively.
C7_FollowUpsQueuedAlways == [][CoreAnswerStep => QueuedAsClaimed]_vars

\* what does hold: the same of a session configured with maxFollowUps >= 1,
\* where the cap compared at queueing time lets the first answer through
FollowUpsQueuedWhenEnabled ==
    [][(CoreAnswerStep /\ maxFollowUps >= 1) => QueuedAsClaimed]_vars

\* the answer to core-1 queued the always-asked and the keyword follow-up
C7_Witness ==
    /\ pc = "after_core"
    /\ provided[Len(provided)].answer = <<"x", "l", "A">>
    /\ pendingFollowUps = << FollowUp(1, AlwaysAsk("core-1")),
                            FollowUp(2, Keywords("core-1", TriggerWords)) >>

\* the empty answer queued the always-asked follow-up and not the keyword one
C7_WitnessNoKeyword ==
    /\ pc = "after_core"
    /\ provided[Len(provided)].answer = <<>>
    /\ questionSet.followUpQuestions = << FollowUp(1, AlwaysAsk("core-1")),
                                          FollowUp(2, Keywords("core-1", TriggerWords)) >>
    /\ pendingFollowUps = << FollowUp(1, AlwaysAsk("core-1")) >>

\* C4 (as claimed): after cancel() was called while start() awaited an answer,
\* start() asks no further question and ends in state cancelled.
C4_CancelWhileAwaitingHonoured ==
    [][ ( /\ lastCall.op = "cancel"
          /\ lastCall.named = "awaiting_answer"
          /\ lastCall' = lastCall )
        => /\ AskedOfSource(provided', outstanding', question') = Asked
           /\ pc' = "done" => state' = "cancelled" ]_vars

Terminal == {"completed", "cancelled"}

\* C5 (as claimed): once the state is completed or cancelled, no operation and
\* no arriving answer changes it.
C5_TerminalStatesStay == [][(state \in Terminal) => (state' = state)]_vars

\* C6 (as claimed): a start() called on a fresh session restored from a snapshot
\* of a session in progress with questions still queued is accepted.
C6_RestoredSessionStarts ==
    ( /\ lastCall.op = "start"
      /\ restoredFrom # NoSnapshot
      /\ restoredFrom.state \in {"in_progress", "awaiting_answer"}
      /\ Len(restoredFrom.remainingCoreQuestionIds)
           + Len(restoredFrom.remainingFollowUpIds) > 0 )
    => lastCall.result = "ok"

\* a step that is a call of start()
StartStep == lastCall' # lastCall /\ lastCall'.op = "start"

\* C9: start() called in a state other than ready fails with an invalid-state
\* error naming that state and changes nothing; it is accepted only before the
\* loop was ever entered, so the loop is entered at most once per instance.
C9_StartOnlyFromReady ==
    [][ /\ pc # "none" => pc' # "none"
        /\ StartStep =>
             IF state = "ready"
             THEN /\ lastCall'.result # "invalid_state"
                  /\ pc = "none"
                  /\ lastCall'.result = "ok" => pc' # "none"
             ELSE /\ lastCall'.result = "invalid_state"
                  /\ lastCall'.named = state
                  /\ UNCHANGED <<fields, run>> ]_vars

\* a second start() was refused while the first awaited an answer
C9_Witness ==
    /\ lastCall.op = "start"
    /\ lastCall.result = "invalid_state"
    /\ lastCall.named = "awaiting_answer"
    /\ pc \in Awaiting
    /\ state = "awaiting_answer"

\* a second start() was refused after the first had resolved
C9_WitnessAfterRun ==
    /\ lastCall.op = "start"
    /\ lastCall.result = "invalid_state"
    /\ lastCall.named = "completed"
    /\ pc = "done"
    /\ Len(exchanges) = 2

\* C10: start() on a ready session with no answer source fails with a
\* configuration error and changes nothing: no question asked, no event, state
\* ready, queues as they were.
C10_StartWithoutSource ==
    [][ (StartStep /\ state = "ready" /\ source = "none")
        => /\ lastCall'.result = "config_error"
           /\ UNCHANGED <<fields, run>>
           /\ events' = <<>>
           /\ state' = "ready" ]_vars

\* start() was refused for want of an answer source, questions still queued
C10_Witness ==
    /\ lastCall.op = "start"
    /\ lastCall.result = "config_error"
    /\ source = "none"
    /\ state = "ready"
    /\ Len(remainingCoreQuestions) = 2
    /\ events = <<>>

\* the positions of the session_completed events
SessionCompletedAt(evs) == { i \in 1..Len(evs) : evs[i].type = "session_completed" }

\* C11 (as claimed): a run of start() that ends completed has emitted
\* session_completed exactly once, as its last event and with questionsRemaining
\* 0; a run that ends cancelled has emitted no session_completed event. The
\* events are those a progress callback registered during the run received.
C11_SessionCompletedOnlyOnCompletion ==
    (pc \in {"done", "failed"}) =>
        /\ (state = "completed" /\ events # <<>>) =>
              /\ SessionCompletedAt(events) = {Len(events)}
              /\ events[Len(events)].questionsRemaining = 0
        /\ state = "cancelled" => SessionCompletedAt(events) = {}

\* C12: under any interleaving of start(), cancel(), submitAnswer(),
\* skipCurrentQuestion() and answer arrivals, at most one request to the answer
\* source is outstanding.
C12_OneOutstandingRequest == outstanding <= 1

\* a request is outstanding while the driver has pushed an answer in and a
\* further start() was refused
C12_Witness ==
    /\ outstanding = 1
    /\ pc \in Awaiting
    /\ Len(exchanges) >= 1
    /\ lastCall.op = "start"
    /\ lastCall.result = "invalid_state"
    /\ lastCall.named = "in_progress"

\* C13: when the answer source throws, start() rejects with the error, the
\* state becomes cancelled, the failed question is not asked again and no
\* further question is asked.
C13_SourceErrorPropagates ==
    \A k \in 1..Len(provided) :
        provided[k].answer = Thrown =>
            /\ k = Len(provided)
            /\ Len(Asked) = k
            /\ outstanding = 0
            /\ pc \in {"throwing", "failed"}
            /\ pc = "failed" => (state = "cancelled" /\ Len(exchanges) = k - 1)

\* the source threw on the second question and start() has rejected
C13_Witness ==
    /\ pc = "failed"
    /\ Len(provided) = 2
    /\ provided[2].answer = Thrown
    /\ state = "cancelled"
    /\ Len(exchanges) = 1

\* the step in which the answer source returns the empty string
EmptyAnswerStep ==
    /\ pc \in Awaiting
    /\ Len(provided') = Len(provided) + 1
    /\ provided'[Len(provided')].answer = <<>>

\* the step in which start() resumes after an empty answer
AfterEmptyAnswer ==
    /\ pc \in {"after_core", "after_followup"}
    /\ pc' # pc
    /\ provided[Len(provided)].answer = <<>>

\* the queued questions still to be asked once the current one is done
StillToAsk ==
    LET done == askedFollowUpIds \cup {question.id}
        queue == remainingCoreQuestions \o pendingFollowUps
    IN SelectSeq(queue, LAMBDA q : q.type = "core" \/ q.id \notin done)

\* C14: the empty string is an answer, not a cancellation: an exchange with the
\* empty answer is recorded for the question and start() goes on to the next
\* queued question (or completes when none is left).
C14_EmptyAnswerContinues ==
    [][ /\ EmptyAnswerStep =>
             /\ Len(exchanges') = Len(exchanges) + 1
             /\ SubSeq(exchanges', 1, Len(exchanges)) = exchanges
             /\ exchanges'[Len(exchanges')].question = question.text
             /\ exchanges'[Len(exchanges')].answer = <<>>
             /\ state' # "cancelled"
        /\ AfterEmptyAnswer =>
             IF StillToAsk # <<>>
             THEN /\ pc' \in Awaiting
                  /\ question' = Head(StillToAsk)
                  /\ state' = "awaiting_answer"
             ELSE /\ pc' = "done"
                  /\ state' = "completed" ]_vars

\* the first question was answered with the empty string and the second is
\* being asked
C14_Witness ==
    /\ pc = "await_core"
    /\ Len(provided) = 1
    /\ provided[1].answer = <<>>
    /\ Len(exchanges) = 1
    /\ exchanges[1].answer = <<>>
    /\ question = CoreQuestion(2)

\* a completed session has nothing queued
CompletedMeansDrained ==
    state = "completed" => (remainingCoreQuestions = <<>> /\ pendingFollowUps = <<>>)

\* the requests the answer source has answered with a string
AnsweredRequests ==
    { k \in 1..Len(provided) : provided[k].answer \notin {Null, Thrown} }

\* C15: a completed session has both queues empty, and a snapshot created after
\* start() resolved in state completed has empty remainingCoreQuestionIds and
\* remainingFollowUpIds and as many exchanges as questions were answered.
C15_CompletedSnapshotDrained ==
    [][ /\ CompletedMeansDrained
        /\ CompletedMeansDrained'
        /\ (snapshot' # snapshot /\ pc = "done" /\ state = "completed") =>
              /\ snapshot'.state = "completed"
              /\ snapshot'.remainingCoreQuestionIds = <<>>
              /\ snapshot'.remainingFollowUpIds = <<>>
              /\ Len(snapshot'.exchanges) = Cardinality(AnsweredRequests) ]_vars

\* a snapshot was taken of a session completed after two core questions and a
\* follow-up
C15_Witness ==
    /\ snapshot # NoSnapshot
    /\ snapshot.state = "completed"
    /\ Len(snapshot.exchanges) = 3
    /\ snapshot.askedFollowUpIds # {}
    /\ Len(questionSet.coreQuestions) = 2
    /\ sessions = 1

\* a step that is a call of restoreFromSnapshot()
RestoreStep == lastCall' # lastCall /\ lastCall'.op = "restoreFromSnapshot"

\* C16: restoring a snapshot into a fresh session bound to the same question
\* set gives a session with the snapshotted state, exchanges and
\* getQuestionsRemaining(), whose own snapshot equals the one restored.
C16_SnapshotRoundTrip ==
    [][ /\ snapshot' # snapshot =>
              /\ snapshot'.state = state
              /\ snapshot'.exchanges = exchanges
              /\ Len(snapshot'.remainingCoreQuestionIds)
                   + Len(snapshot'.remainingFollowUpIds) = getQuestionsRemaining(Sess)
        /\ RestoreStep =>
              /\ lastCall'.result = "ok"
              /\ state' = snapshot.state
              /\ exchanges' = snapshot.exchanges
              /\ getQuestionsRemaining(Sess)' =
                   Len(snapshot.remainingCoreQuestionIds)
                     + Len(snapshot.remainingFollowUpIds)
              /\ createSnapshot(Sess)' = snapshot ]_vars

\* a snapshot taken while a follow-up was pending was restored into a second
\* session
C16_Witness ==
    /\ sessions = 2
    /\ restoredFrom # NoSnapshot
    /\ restoredFrom = snapshot
    /\ lastCall.op = "restoreFromSnapshot"
    /\ Len(snapshot.remainingFollowUpIds) >= 1
    /\ Len(snapshot.exchanges) >= 1
    /\ pendingFollowUps # <<>>

\* a step that is a call of the named method
CallStep(op) == lastCall' # lastCall /\ lastCall'.op = op

\* the call was refused naming the current state, and the session is as it was
RefusedUnchanged ==
    /\ lastCall'.result = "invalid_state"
    /\ lastCall'.named = state
    /\ UNCHANGED fields

\* C17: restoreFromSnapshot outside idle/ready, submitAnswer outside
\* awaiting_answer and skipCurrentQuestion outside awaiting_answer/in_progress
\* fail with an invalid-state error and leave state, queues and exchanges
\* unchanged.
C17_GuardedCallsRefused ==
    [][ /\ (CallStep("restoreFromSnapshot") /\ state \notin {"idle", "ready"})
              => RefusedUnchanged
        /\ (CallStep("submitAnswer") /\ state # "awaiting_answer")
              => RefusedUnchanged
        /\ (CallStep("skipCurrentQuestion")
              /\ state \notin {"awaiting_answer", "in_progress"})
              => RefusedUnchanged ]_vars

\* restoreFromSnapshot was refused on a session awaiting an answer
C17_Witness ==
    /\ lastCall.op = "restoreFromSnapshot"
    /\ lastCall.result = "invalid_state"
    /\ lastCall.named = "awaiting_answer"
    /\ snapshot # NoSnapshot
    /\ pc \in Awaiting
    /\ state = "awaiting_answer"

\* submitAnswer was refused on a session in progress with a question queued
C17_WitnessSubmit ==
    /\ lastCall.op = "submitAnswer"
    /\ lastCall.result = "invalid_state"
    /\ lastCall.named = "in_progress"
    /\ state = "in_progress"
    /\ remainingCoreQuestions # <<>>

\* skipCurrentQuestion was refused on a session not yet started
C17_WitnessSkip ==
    /\ lastCall.op = "skipCurrentQuestion"
    /\ lastCall.result = "invalid_state"
    /\ lastCall.named = "ready"
    /\ state = "ready"
    /\ Len(remainingCoreQuestions) = 2

\* C18 (as claimed): provideAnswer returns the mapped answer when the question's
\* id is a key of the map, and otherwise the default answer if one was given
\* and null if none was.
C18_ProvideAnswerByIdOrDefault ==
    (call.op = "provideAnswer" /\ call.returned) =>
        IF \E i \in 1..Len(call.answers) : call.answers[i].key = call.question.id
        THEN \E i \in 1..Len(call.answers) :
                /\ call.answers[i].key = call.question.id
                /\ call.result = call.answers[i].value
        ELSE call.result = (IF call.defaultAnswer = NoAnswer THEN Null
                            ELSE call.defaultAnswer)

\* C20 (as claimed): for every configuration with minCoreQuestions <=
\* maxCoreQuestions the core list has at least minCoreQuestions and at most
\* maxCoreQuestions entries (5 to 8 with the default configuration).
C20_CoreCountWithinLimits ==
    (call.op = "generateTechLeadQuestions") =>
        LET cfg == InterviewQuestionGenerator(call.config)
        IN cfg.minCoreQuestions <= cfg.maxCoreQuestions =>
              \A i \in 1..Len(call.results) :
                  /\ Len(call.results[i].coreQuestions) >= cfg.minCoreQuestions
                  /\ Len(call.results[i].coreQuestions) <= cfg.maxCoreQuestions

\* the same for the configurations whose minimum the eight templates can meet
CoreCountWithinLimitsUpToTemplates ==
    (call.op = "generateTechLeadQuestions") =>
        LET cfg == InterviewQuestionGenerator(call.config)
        IN (cfg.minCoreQuestions <= cfg.maxCoreQuestions
              /\ cfg.minCoreQuestions <= Len(TECH_LEAD_CORE_TEMPLATES)) =>
              \A i \in 1..Len(call.results) :
                  /\ Len(call.results[i].coreQuestions) >= cfg.minCoreQuestions
                  /\ Len(call.results[i].coreQuestions) <= cfg.maxCoreQuestions

\* the sets generateTechLeadQuestions has returned
Generated ==
    IF call.op = "generateTechLeadQuestions"
    THEN { call.results[i] : i \in 1..Len(call.results) }
    ELSE {}

\* the configuration the generator instance works with
GeneratorConfig == InterviewQuestionGenerator(call.config)

\* C21: in every generated set, each follow-up's trigger names the id of a
\* question of that set's core list as returned (sorted and truncated).
C21_TriggersNameCoreQuestions ==
    \A qs \in Generated :
        \A i \in 1..Len(qs.followUpQuestions) :
            /\ qs.followUpQuestions[i].followUpTrigger.has
            /\ \E j \in 1..Len(qs.coreQuestions) :
                  qs.coreQuestions[j].id =
                      qs.followUpQuestions[i].followUpTrigger.afterQuestionId

\* a set with a decision follow-up hanging on a template question and a
\* template follow-up, its core list cut to six
C21_Witness ==
    \E qs \in Generated :
        /\ Len(qs.coreQuestions) = 6
        /\ GeneratorConfig.maxCoreQuestions = 6
        /\ \E i \in 1..Len(qs.followUpQuestions) :
              /\ qs.followUpQuestions[i].id[1] = "decision"
              /\ qs.followUpQuestions[i].followUpTrigger.afterQuestionId[2] = "-core-"
        /\ \E i \in 1..Len(qs.followUpQuestions) :
              qs.followUpQuestions[i].id[1] = "tech-lead"

\* C22: in every generated set, estimatedQuestionCount.min is the number of
\* core questions, max is that number plus the smaller of the pool size and
\* maxFollowUpQuestions, and min <= max.
C22_EstimatedCountMatches ==
    \A qs \in Generated :
        LET pool == Len(qs.followUpQuestions)
            cap == GeneratorConfig.maxFollowUpQuestions
        IN /\ qs.estimatedQuestionCount.min = Len(qs.coreQuestions)
           /\ qs.estimatedQuestionCount.max =
                 Len(qs.coreQuestions) + (IF pool <= cap THEN pool ELSE cap)
           /\ qs.estimatedQuestionCount.min <= qs.estimatedQuestionCount.max

\* a set whose pool is smaller than the cap, so that max = core + pool
C22_Witness ==
    \E qs \in Generated :
        /\ GeneratorConfig.maxFollowUpQuestions = 8
        /\ Len(qs.followUpQuestions) \in 1..7
        /\ qs.estimatedQuestionCount.max > qs.estimatedQuestionCount.min
        /\ Len(qs.coreQuestions) = 8

\* C23: the follow-up pool of a generated set never holds more than
\* maxFollowUpQuestions questions, however many decisions are moderate or
\* unclear.
C23_PoolWithinCap ==
    \A qs \in Generated :
        Len(qs.followUpQuestions) <= GeneratorConfig.maxFollowUpQuestions

\* two unclear or moderate decisions with a related core question, a cap of
\* one, and a pool of one
C23_Witness ==
    /\ call.op = "generateTechLeadQuestions"
    /\ call.config.maxFollowUpQuestions = 1
    /\ Len(call.analysisResult.scoredDecisions) = 2
    /\ \A i \in 1..2 : call.analysisResult.scoredDecisions[i].needsClarification
    /\ \E qs \in Generated :
          /\ Len(qs.followUpQuestions) = 1
          /\ Len(qs.coreQuestions) >= 2

\* the roles of a list of interview results
RolesOf(interviews) == [i \in 1..Len(interviews) |-> interviews[i].stakeholderRole]

\* what the r-th call of run handed to the agents, in the order of the calls
RECURSIVE HandedBy(_, _)
HandedBy(handed, who) ==
    IF handed = <<>> THEN <<>>
    ELSE LET rest == HandedBy(SubSeq(handed, 1, Len(handed) - 1), who)
             last == handed[Len(handed)]
         IN IF last.by = who THEN Append(rest, last) ELSE rest

\* C24: every call of run, whatever other calls of run or runSingle are in
\* progress on the same orchestrator, has at most one interview of its own in
\* progress, starts its interviews in the configured order, hands the agent
\* at position i exactly the results of the agents before it, in order, and
\* returns the results in that order.
C24_InterviewsInSequence ==
    (call.op = "run") =>
        \A r \in 1..Len(call.runs) :
            LET this == call.runs[r]
                handed == HandedBy(call.handed, <<"run", r>>)
                n == Len(handed)
                order == call.configuredStakeholders
                completed == Len(this.interviews)
            IN /\ n <= Len(order)
               /\ completed \in {n - 1, n}
               /\ (this.settled = "pending") => (completed = n - 1)
               /\ (this.settled = "fulfilled") => (completed = n)
               /\ \A i \in 1..n :
                     /\ handed[i].agent = order[i]
                     /\ handed[i].previousInterviews = SubSeq(this.interviews, 1, i - 1)
               /\ RolesOf(this.interviews) = SubSeq(order, 1, Len(this.interviews))
               /\ \A k \in 1..(n + completed) :
                     /\ this.progress[k].stakeholder = order[(k + 1) \div 2]
                     /\ this.progress[k].type =
                           IF k % 2 = 1 THEN "stakeholder_start" ELSE "stakeholder_complete"
               /\ (this.settled = "fulfilled") =>
                     /\ this.result = this.interviews
                     /\ RolesOf(this.result) = order

\* a run over the three roles of the default order has returned while a
\* second call of run and a call of runSingle were in progress; its third
\* agent was handed the two results before it
C24_Witness ==
    /\ call.op = "run"
    /\ call.configuredStakeholders = DEFAULT_STAKEHOLDER_ORDER
    /\ Len(call.runs) = 2
    /\ call.runs[1].settled = "fulfilled"
    /\ call.runs[2].settled = "pending"
    /\ Len(call.singles) = 1
    /\ call.singles[1].settled = "pending"
    /\ call.conducting = 2
    /\ Len(HandedBy(call.handed, <<"run", 1>>)) = 3
    /\ Len(HandedBy(call.handed, <<"run", 1>>)[3].previousInterviews) = 2
    /\ call.runs[1].result[1].finding # call.runs[1].result[2].finding

\* start() has recorded the answer to the question it was awaiting
StartAnswerStep ==
    /\ pc \in Awaiting
    /\ pc' \in {"after_core", "after_followup"}
    /\ Len(exchanges') = Len(exchanges) + 1

\* submitAnswer was accepted and has recorded an answer
SubmitAnswerStep ==
    /\ pc' = pc
    /\ lastCall'.op = "submitAnswer"
    /\ lastCall'.result = "ok"
    /\ Len(exchanges') = Len(exchanges) + 1

\* the answer submitAnswer records put a follow-up on the pending queue
QueuedBySubmit ==
    LET answer == exchanges'[Len(exchanges')].answer
        q == getCurrentQuestion(Sess)
        triggered == ExpectedSelection(questionSet.followUpQuestions, answer, q.id)
    IN \E i \in 1..Len(triggered) : triggered[i].id \notin askedFollowUpIds

\* the questions of the session's question set have pairwise distinct ids, as
\* every QuestionSet of the generator has
DistinctQuestionIds ==
    LET all == questionSet.coreQuestions \o questionSet.followUpQuestions
    IN \A i, j \in 1..Len(all) : i # j => all[i].id # all[j].id

\* C28: in a session over a question set with distinct ids, the
\* followUpTriggered flag of a recorded exchange is true exactly when the
\* answer put at least one follow-up on the pending queue, in start() and in
\* submitAnswer alike, whatever methods the driver calls in between.
C28_FlagMatchesQueue ==
    [][DistinctQuestionIds =>
          /\ StartAnswerStep =>
                (exchanges'[Len(exchanges')].followUpTriggered <=> NewlyQueued # <<>>)
          /\ SubmitAnswerStep =>
                (exchanges'[Len(exchanges')].followUpTriggered <=> QueuedBySubmit)]_vars

\* start() has recorded a flagged exchange for core-1, whose answer queued
\* followup-1; while start() awaited the answer to core-2, submitAnswer
\* recorded a flagged exchange for followup-1, whose answer queued
\* followup-2; the answer to core-2 then queued nothing and is not flagged
C28_Witness ==
    /\ DistinctQuestionIds
    /\ lastCall.op = "submitAnswer"
    /\ lastCall.result = "ok"
    /\ Len(exchanges) = 3
    /\ exchanges[1].question = TextOf("core-1")
    /\ exchanges[1].followUpTriggered
    /\ exchanges[2].question = TextOf("followup-1")
    /\ exchanges[2].followUpTriggered
    /\ exchanges[3].question = TextOf("core-2")
    /\ ~exchanges[3].followUpTriggered
    /\ \E k \in 1..Len(pendingFollowUps) : pendingFollowUps[k].id = "followup-2"

\* the flag of an exchange recorded by start() tells whether a follow-up was
\* put on the pending queue
FlagMatchesQueueInStart ==
    [][StartAnswerStep =>
          (exchanges'[Len(exchanges')].followUpTriggered <=> NewlyQueued # <<>>)]_vars

\* the flag of an exchange recorded by submitAnswer tells whether a follow-up
\* was put on the pending queue
FlagMatchesQueueInSubmit ==
    [][SubmitAnswerStep =>
          (exchanges'[Len(exchanges')].followUpTriggered <=> QueuedBySubmit)]_vars

\* the number of events of one type emitted so far
RECURSIVE CountEvents(_, _)
CountEvents(evs, type) ==
    IF evs = <<>> THEN 0
    ELSE (IF Head(evs).type = type THEN 1 ELSE 0) + CountEvents(Tail(evs), type)

\* the ids of the follow-up pool
PoolIds ==
    { questionSet.followUpQuestions[i].id : i \in 1..Len(questionSet.followUpQuestions) }

\* start() has settled: resolved or rejected, the session completed or cancelled
StartSettled == pc \in {"done", "failed"} /\ state \in Terminal

\* C25: with an answer source that always settles, start() never asks more
\* questions than there are core questions and follow-up ids, and once
\* called it eventually settles with the session completed or cancelled,
\* also when follow-ups are conditioned on other follow-ups or on themselves.
C25_StartTerminates ==
    /\ [](Len(Asked) <= Len(questionSet.coreQuestions) + Cardinality(PoolIds))
    /\ (pc # "none") ~> StartSettled

\* a completed run over a pool holding a follow-up conditioned on itself,
\* which was queued a second time by its own answer
C25_Witness ==
    /\ pc = "done"
    /\ state = "completed"
    /\ questionSet.followUpQuestions =
           <<FollowUp(1, AlwaysAsk("core-1")), FollowUp(1, AlwaysAsk("followup-1"))>>
    /\ CountEvents(events, "followup_triggered") = 2
    /\ Len(Asked) = Len(questionSet.coreQuestions) + 1

\* the ids of the follow-ups start() has put on the pending queue, in order
RECURSIVE QueuedIds(_)
QueuedIds(evs) ==
    IF evs = <<>> THEN <<>>
    ELSE (IF Head(evs).type = "followup_triggered" THEN <<Head(evs).question>> ELSE <<>>)
         \o QueuedIds(Tail(evs))

\* a sequence without the repetitions of its earlier elements
RECURSIVE FirstOccurrences(_)
FirstOccurrences(xs) ==
    IF xs = <<>> THEN <<>>
    ELSE LET front == FirstOccurrences(SubSeq(xs, 1, Len(xs) - 1))
             last == xs[Len(xs)]
         IN IF InSeq(last, front) THEN front ELSE Append(front, last)

IsPrefix(xs, ys) == Len(xs) <= Len(ys) /\ xs = SubSeq(ys, 1, Len(xs))

\* the progress callback has heard of every question asked so far: it was
\* registered before start() asked its first question
HeardEveryQuestion == Len(AskedIds(events)) = Len(Asked)

\* the questions asked follow the core questions and then the follow-ups in
\* the order in which a callback that heard every question saw them queued
AskedAsQueued ==
    LET coreIds == [i \in 1..Len(questionSet.coreQuestions) |->
                       questionSet.coreQuestions[i].id]
    IN IF Len(Asked) <= Len(coreIds)
       THEN IsPrefix(Asked, coreIds)
       ELSE /\ IsPrefix(coreIds, Asked)
            /\ HeardEveryQuestion =>
                  IsPrefix(SubSeq(Asked, Len(coreIds) + 1, Len(Asked)),
                           FirstOccurrences(QueuedIds(events)))

\* the positions of the pending queue holding a follow-up not asked before
NotYetAsked == { i \in 1..Len(pendingFollowUps) : ~InSeq(pendingFollowUps[i].id, Asked) }

\* a step of start() that puts a question to the answer source takes the
\* head of the core queue, or with no core question left the first entry of
\* the pending queue that was not asked before
AsksHeadOfQueues ==
    LET asked == AskedOfSource(provided', outstanding', question')
    IN (Len(asked) = Len(Asked) + 1) =>
          IF remainingCoreQuestions # <<>>
          THEN asked[Len(asked)] = Head(remainingCoreQuestions).id
          ELSE /\ NotYetAsked # {}
               /\ asked[Len(asked)] =
                     pendingFollowUps[CHOOSE i \in NotYetAsked :
                                         \A j \in NotYetAsked : i <= j].id

\* C26: start() asks the core questions in the order of the question set,
\* every core question before any follow-up, and the follow-ups in the order
\* in which they were put on the pending queue, whether or not a progress
\* callback is registered.
C26_AskedInQueueOrder ==
    /\ [](AskedAsQueued)
    /\ [][AsksHeadOfQueues]_vars

\* two core questions, then two follow-ups queued by one answer, asked in
\* the order of their queueing
C26_Witness ==
    /\ pc = "done"
    /\ Asked = <<"core-1", "core-2", "followup-1", "followup-2">>
    /\ HeardEveryQuestion
    /\ QueuedIds(events) = <<"followup-1", "followup-2">>

\* how often the question with this id was put to the answer source
TimesPut(id) == Cardinality({ k \in 1..Len(Asked) : Asked[k] = id })

\* how many question_asked events the progress callback has received for it
TimesAsked(id) ==
    Cardinality({ k \in 1..Len(events) :
                    events[k].type = "question_asked" /\ events[k].question = id })

\* how many exchanges hold the text of the question with this id
TimesRecorded(id) ==
    Cardinality({ k \in 1..Len(exchanges) : exchanges[k].question = TextOf(id) })

\* C27: in a session driven by start(), each follow-up id has at most one
\* question_asked event and at most one exchange, even if the follow-up was
\* put on the pending queue several times.
C27_FollowUpAskedOnce ==
    \A id \in PoolIds : TimesPut(id) <= 1 /\ TimesAsked(id) <= 1 /\ TimesRecorded(id) <= 1

\* followup-1 was put on the pending queue twice and asked once, after two
\* core questions
C27_Witness ==
    /\ pc = "done"
    /\ Len(questionSet.coreQuestions) = 2
    /\ QueuedIds(events) = <<"followup-1", "followup-1">>
    /\ TimesPut("followup-1") = 1
    /\ TimesAsked("followup-1") = 1
    /\ TimesRecorded("followup-1") = 1

\* the events in the order the claim gives: an answer_received directly after
\* the question_asked of its question, followup_triggered only after an
\* answer_received or another followup_triggered, a question_asked first or
\* after the events of the question before, session_completed last
EventsInOrder ==
    \A k \in 1..Len(events) :
        LET type == events[k].type
            before == IF k = 1 THEN "none" ELSE events[k - 1].type
        IN /\ type = "answer_received" =>
                 before = "question_asked" /\ events[k - 1].question = events[k].question
           /\ type = "followup_triggered" =>
                 before \in {"answer_received", "followup_triggered"}
           /\ type = "question_asked" =>
                 before \in {"none", "answer_received", "followup_triggered"}
           /\ type = "session_completed" => k = Len(events)

\* the events an answer adds: answer_received, then one followup_triggered
\* for each follow-up it put on the pending queue, in queue order
AnswerEventsAsClaimed ==
    LET new == SubSeq(events', Len(events) + 1, Len(events'))
    IN /\ Len(new) = 1 + Len(NewlyQueued)
       /\ new[1].type = "answer_received"
       /\ new[1].question = question.id
       /\ \A i \in 1..Len(NewlyQueued) :
             /\ new[i + 1].type = "followup_triggered"
             /\ new[i + 1].question = NewlyQueued[i].id

\* C29: to a progress callback registered before the first question, for
\* every question start() processes, question_asked comes first,
\* then answer_received if an answer came, then one followup_triggered per
\* newly queued follow-up, all before the next question_asked; in a completed
\* run the question_asked events, the answer_received events and the
\* exchanges are equally many.
C29_EventsInOrder ==
    /\ [](HeardEveryQuestion => EventsInOrder)
    /\ [][(StartAnswerStep /\ progressCallback) => AnswerEventsAsClaimed]_vars
    /\ []((pc = "done" /\ state = "completed" /\ progressCallback /\ HeardEveryQuestion) =>
             /\ CountEvents(events, "question_asked") = Len(exchanges)
             /\ CountEvents(events, "answer_received") = Len(exchanges))

\* a completed run in which one answer queued two follow-ups and both were
\* asked and answered
C29_Witness ==
    /\ pc = "done"
    /\ state = "completed"
    /\ HeardEveryQuestion
    /\ Len(events) >= 4
    /\ events[2].type = "answer_received"
    /\ events[3].type = "followup_triggered"
    /\ events[4].type = "followup_triggered"
    /\ Len(exchanges) = Len(questionSet.coreQuestions) + 2

\* C30: once start() has been called on a session, every operation leaves
\* the exchange list as it was or longer by appended exchanges: the earlier
\* list is a prefix of the later one.
C30_ExchangesAppendOnly ==
    [][(pc # "none") => IsPrefix(exchanges, exchanges')]_vars

\* a started session holding two exchanges on which restoreFromSnapshot was
\* called, the snapshot being one with no exchanges
C30_Witness ==
    /\ pc # "none"
    /\ Len(exchanges) >= 2
    /\ snapshot # NoSnapshot
    /\ snapshot.exchanges = <<>>
    /\ lastCall.op = "restoreFromSnapshot"
    /\ lastCall.named = "in_progress"

\* the ids of a list that some question of qs bears, in the order of the list
Resolvable(ids, qs) ==
    SelectSeq(ids, LAMBDA id : \E i \in 1..Len(qs) : qs[i].id = id)

\* C31: restoreFromSnapshot on a new session succeeds whatever ids the
\* snapshot lists; the restored queues hold exactly the ids that resolve in
\* the session's own question set, in snapshot order, and
\* getQuestionsRemaining() is their number.
C31_UnknownIdsDropped ==
    (lastCall.op = "restoreFromSnapshot") =>
        LET coreIds == Resolvable(snapshot.remainingCoreQuestionIds,
                                  questionSet.coreQuestions)
            followUpIds == Resolvable(snapshot.remainingFollowUpIds,
                                      questionSet.followUpQuestions)
        IN /\ lastCall.result = "ok"
           /\ Ids(remainingCoreQuestions) = coreIds
           /\ Ids(pendingFollowUps) = followUpIds
           /\ getQuestionsRemaining(Sess) = Len(coreIds) + Len(followUpIds)
           /\ \A i \in 1..Len(remainingCoreQuestions) :
                 InSeq(remainingCoreQuestions[i], questionSet.coreQuestions)
           /\ \A i \in 1..Len(pendingFollowUps) :
                 InSeq(pendingFollowUps[i], questionSet.followUpQuestions)

\* a snapshot listing core-2 before core-1, restored
\* into a session of two core questions whose pool lacks followup-2
C31_Witness ==
    /\ lastCall.op = "restoreFromSnapshot"
    /\ snapshot.remainingCoreQuestionIds = <<"core-2", "core-1">>
    /\ snapshot.remainingFollowUpIds = <<"followup-2", "followup-1">>
    /\ Ids(remainingCoreQuestions) = <<"core-2", "core-1">>
    /\ Ids(pendingFollowUps) = <<"followup-1">>

\* a snapshot naming a core question the session does not hold: it is dropped
C31_WitnessUnknownCore ==
    /\ lastCall.op = "restoreFromSnapshot"
    /\ snapshot.remainingCoreQuestionIds = <<"core-3", "core-1">>
    /\ Ids(remainingCoreQuestions) = <<"core-1">>
    /\ getQuestionsRemaining(Sess) = 1

\* C32: the core questions of a generated set are in non-decreasing priority
\* order, and of two questions of equal priority the one inserted first
\* (decision questions, then ambiguity questions, then template questions;
\* the number in the id is the position of insertion) comes first.
C32_CoreSortedStable ==
    \A qs \in Generated :
        \A i, j \in 1..Len(qs.coreQuestions) :
            i < j =>
                LET a == qs.coreQuestions[i]
                    b == qs.coreQuestions[j]
                IN /\ a.priority <= b.priority
                   /\ (a.priority = b.priority) => a.id[3] < b.id[3]

\* a decision question and the first template share priority 1, an ambiguity
\* question and the second template share priority 2, and the ambiguity
\* question, inserted before the first template, was moved behind it
C32_Witness ==
    \E qs \in Generated :
        /\ Len(qs.coreQuestions) >= 4
        /\ qs.coreQuestions[1].id[1] = "decision"
        /\ qs.coreQuestions[2].id[1] = "tech-lead"
        /\ qs.coreQuestions[2].priority = 1
        /\ qs.coreQuestions[3].id[1] = "ambiguity"
        /\ qs.coreQuestions[3].id[3] < qs.coreQuestions[2].id[3]
        /\ qs.coreQuestions[4].priority = 2

\* the decisions of the analysed result that are flagged needsClarification
\* and bear this title
FlaggedWithTitle(title) ==
    { d \in 1..Len(call.analysisResult.scoredDecisions) :
        /\ call.analysisResult.scoredDecisions[d].needsClarification
        /\ call.analysisResult.scoredDecisions[d].title = title }

\* the ambiguities of the analysed result with this description
AmbiguitiesDescribed(description) ==
    { a \in 1..Len(call.analysisResult.ambiguities) :
        call.analysisResult.ambiguities[a].description = description }

\* the core questions of a set tagged with a decision title
TaggedWithTitle(qs, title) ==
    { i \in 1..Len(qs.coreQuestions) : qs.coreQuestions[i].relatedDecisionTitle = title }

\* the core questions of a set tagged with an ambiguity description
TaggedWithDescription(qs, description) ==
    { i \in 1..Len(qs.coreQuestions) :
        qs.coreQuestions[i].relatedAmbiguityDescription = description }

DecisionTitles == { DecisionTable[i].title : i \in 1..Len(DecisionTable) }

AmbiguityDescriptions == { AmbiguityTable[i].description : i \in 1..Len(AmbiguityTable) }

\* the flagged decisions and the ambiguities of the analysed result
ItemsToAsk ==
    Cardinality({ d \in 1..Len(call.analysisResult.scoredDecisions) :
                    call.analysisResult.scoredDecisions[d].needsClarification })
        + Len(call.analysisResult.ambiguities)

\* C33 (as claimed): for any analysis result, each decision flagged
\* needsClarification has exactly one core question tagged with its title and
\* each ambiguity exactly one core question tagged with its description.
C33_EveryItemAsked ==
    \A qs \in Generated :
        /\ \A t \in DecisionTitles :
              Cardinality(TaggedWithTitle(qs, t)) = Cardinality(FlaggedWithTitle(t))
        /\ \A d \in AmbiguityDescriptions :
              Cardinality(TaggedWithDescription(qs, d)) =
                  Cardinality(AmbiguitiesDescribed(d))

\* C33 (amended): no decision or ambiguity has more than one core question,
\* an unflagged decision has none, and when the flagged decisions and the
\* ambiguities together do not exceed maxCoreQuestions each has exactly one.
C33_EveryItemAskedWithinCap ==
    \A qs \in Generated :
        /\ \A t \in DecisionTitles :
              /\ Cardinality(TaggedWithTitle(qs, t)) <= Cardinality(FlaggedWithTitle(t))
              /\ (ItemsToAsk <= GeneratorConfig.maxCoreQuestions) =>
                    Cardinality(TaggedWithTitle(qs, t)) = Cardinality(FlaggedWithTitle(t))
        /\ \A d \in AmbiguityDescriptions :
              /\ Cardinality(TaggedWithDescription(qs, d)) <=
                    Cardinality(AmbiguitiesDescribed(d))
              /\ (ItemsToAsk <= GeneratorConfig.maxCoreQuestions) =>
                    Cardinality(TaggedWithDescription(qs, d)) =
                        Cardinality(AmbiguitiesDescribed(d))

\* a flagged decision, an unflagged one and two ambiguities within the cap:
\* one question for the flagged decision, none for the other, one for each
\* ambiguity
C33_Witness ==
    /\ call.op = "generateTechLeadQuestions"
    /\ ItemsToAsk = 3
    /\ Len(call.analysisResult.scoredDecisions) = 2
    /\ GeneratorConfig.maxCoreQuestions = 6
    /\ \E qs \in Generated :
          /\ Cardinality(TaggedWithTitle(qs, "Auth Strategy")) = 1
          /\ Cardinality(TaggedWithTitle(qs, "Database Schema")) = 0
          /\ Cardinality(TaggedWithDescription(qs, "Unclear area")) = 1
          /\ Cardinality(TaggedWithDescription(qs, "Auth token")) = 1

\* the core questions of a set made from a template
TemplateQuestions(qs) ==
    { i \in 1..Len(qs.coreQuestions) : qs.coreQuestions[i].id[2] = "-core-" }

\* the core questions of a set that were accumulated before question i (the
\* number in an id is the position of insertion)
AccumulatedBefore(qs, i) ==
    { j \in 1..Len(qs.coreQuestions) : qs.coreQuestions[j].id[3] < qs.coreQuestions[i].id[3] }

\* C34: a template question added when minCoreQuestions questions had
\* already been accumulated has a category that no decision question and no
\* template question accumulated before it has, and no template question has
\* the text of a question accumulated before it.
C34_TemplatesSkipCoveredCategories ==
    \A qs \in Generated :
        \A i \in TemplateQuestions(qs) :
            /\ (Cardinality(AccumulatedBefore(qs, i)) >= GeneratorConfig.minCoreQuestions) =>
                  \A j \in AccumulatedBefore(qs, i) :
                      (qs.coreQuestions[j].id[1] # "ambiguity") =>
                          qs.coreQuestions[j].category # qs.coreQuestions[i].category
            /\ \A j \in AccumulatedBefore(qs, i) :
                  qs.coreQuestions[j].text # qs.coreQuestions[i].text

\* what the template loop does skip: once minCoreQuestions is reached, the
\* categories of the decision questions; and every text already present
TemplatesSkipDecisionCategories ==
    \A qs \in Generated :
        \A i \in TemplateQuestions(qs) :
            /\ (Cardinality(AccumulatedBefore(qs, i)) >= GeneratorConfig.minCoreQuestions) =>
                  \A j \in AccumulatedBefore(qs, i) :
                      (qs.coreQuestions[j].id[1] = "decision") =>
                          qs.coreQuestions[j].category # qs.coreQuestions[i].category
            /\ \A j \in AccumulatedBefore(qs, i) :
                  qs.coreQuestions[j].text # qs.coreQuestions[i].text

\* C35: no two follow-up questions in the pool of a generated set have the
\* same text, whichever decisions or templates they come from.
C35_FollowUpTextsDistinct ==
    \A qs \in Generated :
        \A i, j \in 1..Len(qs.followUpQuestions) :
            i # j => qs.followUpQuestions[i].text # qs.followUpQuestions[j].text

\* what the pool does guarantee: a template follow-up never has the text of
\* a follow-up that precedes it
TemplateFollowUpTextsNew ==
    \A qs \in Generated :
        \A i, j \in 1..Len(qs.followUpQuestions) :
            (i < j /\ qs.followUpQuestions[j].id[1] # "decision") =>
                qs.followUpQuestions[i].text # qs.followUpQuestions[j].text

\* the answers tried on a follow-up: the empty one and each of its keywords
TryAnswers(followUp) ==
    {<<>>} \cup { followUp.followUpTrigger.triggerKeywords[k] :
                    k \in 1..Len(followUp.followUpTrigger.triggerKeywords) }

\* C36: every follow-up of a generated set can fire: its trigger has
\* alwaysAsk set or a non-empty keyword list, and some answer to its trigger
\* question makes selectFollowUps return it.
C36_FollowUpsCanFire ==
    \A qs \in Generated :
        \A i \in 1..Len(qs.followUpQuestions) :
            LET f == qs.followUpQuestions[i]
            IN /\ \/ f.followUpTrigger.alwaysAsk
                  \/ f.followUpTrigger.hasKeywords /\ f.followUpTrigger.triggerKeywords # <<>>
               /\ \E answer \in TryAnswers(f) :
                     InSeq(f, selectFollowUps(answer, f.followUpTrigger.afterQuestionId,
                                              qs.followUpQuestions))

\* what does hold: the follow-ups made from templates, and those made from
\* unclear decisions, can fire
TemplateFollowUpsCanFire ==
    \A qs \in Generated :
        \A i \in 1..Len(qs.followUpQuestions) :
            LET f == qs.followUpQuestions[i]
                decision == CHOOSE d \in Range(DecisionTable) : d.title = f.relatedDecisionTitle
            IN (f.id[1] # "decision" \/ decision.ambiguityLevel = "unclear") =>
                  \E answer \in TryAnswers(f) :
                     InSeq(f, selectFollowUps(answer, f.followUpTrigger.afterQuestionId,
                                              qs.followUpQuestions))

\* all the questions of a generated set, core list first
AllQuestions(qs) == qs.coreQuestions \o qs.followUpQuestions

\* C37: the ids of the questions of a generated set, core list and follow-up
\* pool together, are pairwise distinct.
C37_IdsDistinct ==
    \A qs \in Generated :
        \A i, j \in 1..Len(AllQuestions(qs)) :
            i # j => AllQuestions(qs)[i].id # AllQuestions(qs)[j].id

\* a set with decision, ambiguity and template questions in its core list
\* and decision and template follow-ups in its pool
C37_Witness ==
    \E qs \in Generated :
        /\ \E i \in 1..Len(qs.coreQuestions) : qs.coreQuestions[i].id[1] = "decision"
        /\ \E i \in 1..Len(qs.coreQuestions) : qs.coreQuestions[i].id[1] = "ambiguity"
        /\ \E i \in 1..Len(qs.coreQuestions) : qs.coreQuestions[i].id[2] = "-core-"
        /\ \E i \in 1..Len(qs.followUpQuestions) :
              qs.followUpQuestions[i].id = <<"decision", "-followup-", 1>>
        /\ \E i \in 1..Len(qs.followUpQuestions) :
              qs.followUpQuestions[i].id[1] = "tech-lead"
        /\ Len(AllQuestions(qs)) >= 8

\* C38: a snapshot taken during a run of start() accounts for every core
\* question: each has an exchange in the snapshot or its id is listed in
\* remainingCoreQuestionIds (so the question being awaited is listed).
C38_SnapshotAccountsForCore ==
    (snapshot # NoSnapshot) =>
        \A i \in 1..Len(questionSet.coreQuestions) :
            LET q == questionSet.coreQuestions[i]
            IN \/ \E k \in 1..Len(snapshot.exchanges) :
                     snapshot.exchanges[k].question = q.text
               \/ InSeq(q.id, snapshot.remainingCoreQuestionIds)

\* what a snapshot does account for: every core question except the one
\* start() has taken off the queue and not recorded
SnapshotAccountsForCoreButOne ==
    (snapshot # NoSnapshot) =>
        Cardinality({ i \in 1..Len(questionSet.coreQuestions) :
                        LET q == questionSet.coreQuestions[i]
                        IN /\ \A k \in 1..Len(snapshot.exchanges) :
                                 snapshot.exchanges[k].question # q.text
                           /\ ~InSeq(q.id, snapshot.remainingCoreQuestionIds) }) <= 1

\* C39: while start() awaits the answer to a question in state
\* awaiting_answer, getCurrentQuestion() returns that question, the one of
\* the latest question_asked event; in every other state it returns nothing.
C39_CurrentQuestionIsAwaited ==
    /\ (pc \in Awaiting /\ state = "awaiting_answer") =>
          /\ getCurrentQuestion(Sess) = question
          /\ (AskedIds(events) # <<>>) =>
                AskedIds(events)[Len(AskedIds(events))] = question.id
    /\ (state # "awaiting_answer") => getCurrentQuestion(Sess) = NoQuestion

\* the half that holds: outside awaiting_answer there is no current question
NoCurrentQuestionUnlessAwaiting ==
    (state # "awaiting_answer") => getCurrentQuestion(Sess) = NoQuestion

\* the question at the head of the queues: core questions first
HeadOfQueues ==
    IF remainingCoreQuestions # <<>> THEN Head(remainingCoreQuestions)
    ELSE Head(pendingFollowUps)

\* C40: in a session driven without start(), restored in state
\* awaiting_answer, every submitAnswer (a step that leaves the progress
\* callback as it is) made while questions are queued is
\* accepted, records the exchange of the question at the head of the queues,
\* and leaves the session completed when it emptied the queues.
C40_SubmitAnswerDrivesToCompleted ==
    [][(lastCall # NoCall /\ restoredFrom.state = "awaiting_answer"
          /\ getQuestionsRemaining(Sess) >= 1 /\ lastCall'.op = "submitAnswer"
          /\ progressCallback' = progressCallback)
       => /\ lastCall'.result = "ok"
          /\ Len(exchanges') = Len(exchanges) + 1
          /\ exchanges'[Len(exchanges')].question = HeadOfQueues.text
          /\ (remainingCoreQuestions' = <<>> /\ pendingFollowUps' = <<>>)
                => state' = "completed"]_vars

\* what does hold: the first submitAnswer after the restore is accepted, and
\* it completes the session when it answered the only question queued
FirstSubmitAnswerAccepted ==
    [][(lastCall.op = "restoreFromSnapshot" /\ restoredFrom.state = "awaiting_answer"
          /\ getQuestionsRemaining(Sess) >= 1 /\ lastCall'.op = "submitAnswer")
       => /\ lastCall'.result = "ok"
          /\ (getQuestionsRemaining(Sess) = 1 /\ pendingFollowUps' = <<>>)
                => state' = "completed"]_vars

====
